---------------------------- MODULE Spec2Model ----------------------------
(***************************************************************************)
(* State-machine model of the document question-answering backend:         *)
(*   - the rate gate        (app/utils/rate_limiting.py, app/routes/ask.py) *)
(*   - document ingestion   (app/routes/ingest.py, app/tasks.py,            *)
(*                           app/routes/jobs.py)                            *)
(*   - retrieval            (app/utils/vector_search.py,                    *)
(*                           app/utils/enhanced_search.py,                  *)
(*                           app/utils/embeddings.py)                       *)
(* Each subsystem has its own specification over the shared variables.      *)
(***************************************************************************)
EXTENDS Integers, Sequences, FiniteSets, TLC

(***************************************************************************)
(* Bounds of the model                                                     *)
(***************************************************************************)
\* limits the rate gate is called with: 1..MaxLimit
MaxLimit == 2
\* the window (the ttl argument), in ticks of the store's clock
WindowTicks == 2
\* requests a client may send beyond its limit in one window
MaxOver == 1

Procs == {"p1", "p2"}
Clients == {"ipA", "ipB"}

Limits == 1..MaxLimit

VARIABLES
  \* ---- rate gate -------------------------------------------------------
  limit,      \* the limit argument of check_rate_limit
  redisUp,    \* whether the key-value store answers
  rate,       \* key-value store: rate_limit:<client> -> counter and its expiry
  rpc,        \* position of each ask request
  rclient,    \* client address of each ask request
  rscript,    \* what the Lua script returned to the request
  rres,       \* the dict check_rate_limit returned
  routcome,   \* how ask_question left the gate
  rfailed,    \* history: the request took the except branch of check_rate_limit
  winReqs,    \* history: script executions for the client in the current window
  winSeen,    \* history: remaining counts returned with allowed = 1 in the window
  \* ---- ingestion ------------------------------------------------------
  docs,        \* relational store: documents table, by id
  nextDocId,   \* relational store: next value of documents.id
  hashKey,     \* key-value store: doc:hash:<fingerprint> -> document id (0: no key)
  ing,         \* each ingest request: position, upload, locals, response
  firstId,     \* history: document id of the first successful response, per fingerprint
  dispatched,  \* history: number of process_document.delay calls, per document
  job,         \* each process_document task: position and locals
  chunks,      \* relational store: chunks table
  nextChunkId, \* relational store: next value of chunks.id
  points,      \* vector index: collection "embeddings"
  jobrec,      \* key-value store: job:<document id> -> progress record
  lastProgress, \* history: the progress percentage last written to job:<document id>
  \* ---- retrieval ------------------------------------------------------
  es,          \* the retrieval request: position, arguments, locals, result
  tieAsc,      \* vector index: whether equal scores come out by ascending id
  \* ---- questions and answers ------------------------------------------
  nq,          \* two cache lookups: the questions and their normalized forms
  ans,         \* the generate_answer_with_citations call: arguments, locals, result
  cache,       \* key-value store: answer:<md5 of normalized question> -> entry
  ck,          \* the smart_chunk_document call: argument and result
  ask          \* the ask request past the gate: position, arguments, response

rateVars == <<limit, rate, rpc, rclient, rscript, rres, routcome, rfailed,
              winReqs, winSeen>>

ingestVars == <<docs, nextDocId, hashKey, ing, firstId, dispatched, job, chunks,
                nextChunkId, points, jobrec, lastProgress>>

searchVars == <<es, tieAsc>>

textVars == <<nq, ans, cache, ck, ask>>

vars == <<redisUp, rateVars, ingestVars, searchVars, textVars>>

(***************************************************************************)
(* Rate gate                                                               *)
(***************************************************************************)
NoKey == [present |-> FALSE, val |-> 0, ttl |-> 0]
NoScript == [ran |-> FALSE, remaining |-> 0, allowed |-> 0, seq |-> 0, seeded |-> FALSE]
NoRes == [allowed |-> FALSE, remaining |-> 0, reset_time |-> 0]

LuaScriptNoDecr(current, lim, t) ==
  IF ~current.present
    THEN [store |-> [present |-> TRUE, val |-> lim - 1, ttl |-> t],
          remaining |-> lim - 1, allowed |-> 1]
    ELSE IF current.val > 0
      THEN [store |-> current, remaining |-> current.val - 1, allowed |-> 1]
      ELSE [store |-> current, remaining |-> 0, allowed |-> 0]

LuaScriptOffByOne(current, lim, t) ==
  IF ~current.present
    THEN [store |-> [present |-> TRUE, val |-> lim - 1, ttl |-> t],
          remaining |-> lim - 1, allowed |-> 1]
    ELSE IF current.val >= 0
      THEN [store |-> [current EXCEPT !.val = @ - 1],
            remaining |-> current.val - 1, allowed |-> 1]
      ELSE [store |-> current, remaining |-> 0, allowed |-> 0]

LuaScriptDeniedRenews(current, lim, t) ==
  IF ~current.present
    THEN [store |-> [present |-> TRUE, val |-> lim - 1, ttl |-> t],
          remaining |-> lim - 1, allowed |-> 1]
    ELSE IF current.val > 0
      THEN [store |-> [current EXCEPT !.val = @ - 1],
            remaining |-> current.val - 1, allowed |-> 1]
      ELSE [store |-> [current EXCEPT !.ttl = t], remaining |-> 0, allowed |-> 0]

\* The Lua script, executed by the store as one command: GET, then SETEX or
\* DECR; the reply is {remaining, allowed}.
LuaScript(current, lim, t) ==
  IF ~current.present
    THEN [store |-> [present |-> TRUE, val |-> lim - 1, ttl |-> t],
          remaining |-> lim - 1, allowed |-> 1]
    ELSE IF current.val > 0
      THEN [store |-> [current EXCEPT !.val = @ - 1],
            remaining |-> current.val - 1, allowed |-> 1]
      ELSE [store |-> current, remaining |-> 0, allowed |-> 0]

\* redis TTL command: -2 when the key does not exist
RedisTtl(c) == IF rate[c].present THEN rate[c].ttl ELSE -2

FailClosed(lim) ==
  [allowed |-> FALSE, remaining |-> 0, reset_time |-> 0]

\* the except branch of check_rate_limit
FailOpen(lim) ==
  [allowed |-> TRUE, remaining |-> lim - 1, reset_time |-> 0]

\* the dict built from the script's reply
ScriptResult(s, reset) ==
  [allowed |-> (s.allowed # 0), remaining |-> s.remaining, reset_time |-> reset]

GateOutcomeOpen(res) == "proceed"

\* ask_question: the HTTP 429, or the rest of the handler
GateOutcome(res) == IF ~res.allowed THEN "429" ELSE "proceed"

\* ask_question(request, ip_address = c) up to redis_client.eval(...) and its
\* reply; with the store down the except branch returns and the gate decides
Eval(p, c) ==
  /\ rpc[p] = "idle"
  /\ winReqs[c] < limit + MaxOver
  /\ rclient' = [rclient EXCEPT ![p] = c]
  /\ IF ~redisUp
       THEN /\ rres' = [rres EXCEPT ![p] = FailOpen(limit)]
            /\ routcome' = [routcome EXCEPT ![p] = GateOutcome(FailOpen(limit))]
            /\ rfailed' = [rfailed EXCEPT ![p] = TRUE]
            /\ rpc' = [rpc EXCEPT ![p] = "done"]
            /\ UNCHANGED <<rate, rscript, winReqs, winSeen>>
       ELSE LET s == LuaScript(rate[c], limit, WindowTicks)
                seeded == ~rate[c].present
                n == winReqs[c] + 1
            IN /\ rate' = [rate EXCEPT ![c] = s.store]
               /\ rscript' = [rscript EXCEPT ![p] =
                    [ran |-> TRUE, remaining |-> s.remaining,
                     allowed |-> s.allowed, seq |-> n, seeded |-> seeded]]
               /\ winReqs' = [winReqs EXCEPT ![c] = n]
               /\ winSeen' = [winSeen EXCEPT ![c] =
                    IF s.allowed # 0 THEN Append(@, s.remaining) ELSE @]
               /\ rpc' = [rpc EXCEPT ![p] = "ttl"]
               /\ UNCHANGED <<rres, routcome, rfailed>>
  /\ UNCHANGED <<limit, redisUp, ingestVars, searchVars, textVars>>

\* redis_client.ttl(key), the returned dict, and the gate in ask_question
ReadTtl(p) ==
  /\ rpc[p] = "ttl"
  /\ LET res == IF redisUp THEN ScriptResult(rscript[p], RedisTtl(rclient[p]))
                           ELSE FailOpen(limit)
     IN /\ rres' = [rres EXCEPT ![p] = res]
        /\ routcome' = [routcome EXCEPT ![p] = GateOutcome(res)]
  /\ rfailed' = [rfailed EXCEPT ![p] = ~redisUp]
  /\ rpc' = [rpc EXCEPT ![p] = "done"]
  /\ UNCHANGED <<limit, redisUp, rate, rclient, rscript, winReqs, winSeen, ingestVars, searchVars, textVars>>

\* the request is over; the worker takes the next one
Finish(p) ==
  /\ rpc[p] = "done"
  /\ rpc' = [rpc EXCEPT ![p] = "idle"]
  /\ rscript' = [rscript EXCEPT ![p] = NoScript]
  /\ rres' = [rres EXCEPT ![p] = NoRes]
  /\ routcome' = [routcome EXCEPT ![p] = "none"]
  /\ rfailed' = [rfailed EXCEPT ![p] = FALSE]
  /\ rclient' = [rclient EXCEPT ![p] = "ipA"]
  /\ UNCHANGED <<limit, redisUp, rate, winReqs, winSeen, ingestVars, searchVars, textVars>>

\* one unit of time passes in the store: SETEX keys run down and expire; a
\* client's window ends with its key
Tick ==
  /\ \E c \in Clients : rate[c].present
  /\ rate' = [c \in Clients |->
       IF ~rate[c].present THEN rate[c]
       ELSE IF rate[c].ttl <= 1 THEN NoKey
       ELSE [rate[c] EXCEPT !.ttl = @ - 1]]
  /\ winReqs' = [c \in Clients |->
       IF rate[c].present /\ rate[c].ttl <= 1 THEN 0 ELSE winReqs[c]]
  /\ winSeen' = [c \in Clients |->
       IF rate[c].present /\ rate[c].ttl <= 1 THEN <<>> ELSE winSeen[c]]
  /\ UNCHANGED <<limit, redisUp, rpc, rclient, rscript, rres, routcome, rfailed,
                 ingestVars, searchVars, textVars>>

RedisFail ==
  /\ redisUp
  /\ redisUp' = FALSE
  /\ UNCHANGED <<rateVars, ingestVars, searchVars, textVars>>

RedisRecover ==
  /\ ~redisUp
  /\ redisUp' = TRUE
  /\ UNCHANGED <<rateVars, ingestVars, searchVars, textVars>>

RateIdle ==
  /\ redisUp = TRUE
  /\ rate = [c \in Clients |-> NoKey]
  /\ rpc = [p \in Procs |-> "idle"]
  /\ rclient = [p \in Procs |-> "ipA"]
  /\ rscript = [p \in Procs |-> NoScript]
  /\ rres = [p \in Procs |-> NoRes]
  /\ routcome = [p \in Procs |-> "none"]
  /\ rfailed = [p \in Procs |-> FALSE]
  /\ winReqs = [c \in Clients |-> 0]
  /\ winSeen = [c \in Clients |-> <<>>]

(***************************************************************************)
(* Ingestion: POST /ingest                                                 *)
(***************************************************************************)
\* MAX_FILE_SIZE = 10 * 1024 * 1024, in MB
MaxFileSizeMB == 10

IProcs == {"u1", "u2"}

\* uploads: bytes (named), declared content type, size in MB, and whether
\* PyPDF2 can read them
Uploads ==
  { [bytes |-> "pdfA", content_type |-> "application/pdf", size |-> 1, readable |-> TRUE],
    [bytes |-> "text", content_type |-> "text/plain", size |-> 1, readable |-> FALSE],
    [bytes |-> "huge", content_type |-> "application/pdf", size |-> 11, readable |-> TRUE],
    [bytes |-> "junk", content_type |-> "application/pdf", size |-> 1, readable |-> FALSE] }

NoUpload == [bytes |-> "", content_type |-> "", size |-> 0, readable |-> FALSE]

\* hashlib.sha256(content).hexdigest(): one fingerprint per byte content
Sha256(bytes) ==
  CASE bytes = "pdfA" -> "9f2a"
    [] bytes = "text" -> "d0e3"
    [] bytes = "huge" -> "77b1"
    [] bytes = "junk" -> "c5aa"
    [] bytes = "pdfB" -> "41c7"
    [] OTHER -> "e3b0"

Hashes == {Sha256(u.bytes) : u \in Uploads} \cup {"e3b0", "41c7"}

\* ids the documents table can hand out: 1..MaxDocs
MaxDocs == 2
DocIds == 1..MaxDocs

NoDoc == [present |-> FALSE, content_hash |-> "", status |-> ""]
NoResp == [kind |-> "none", code |-> 0, document_id |-> 0, status |-> ""]
IdleIngest ==
  [pc |-> "idle", up |-> NoUpload, content_hash |-> "e3b0", cached |-> 0,
   doc |-> 0, resp |-> NoResp, failed |-> FALSE, created |-> FALSE,
   delayed |-> FALSE, after |-> 0]

\* raise HTTPException(status_code = code) or an unhandled exception (500)
HttpError(code) == [kind |-> "error", code |-> code, document_id |-> 0, status |-> ""]
\* the returned JSON: document_id and status
Ok(id, st) == [kind |-> "ok", code |-> 200, document_id |-> id, status |-> st]

DocsWithHash(h) == {d \in DocIds : docs[d].present /\ docs[d].content_hash = h}

ExistingDocumentNone(h) == {}

\* db.query(Document).filter(Document.content_hash == h).first()
ExistingDocument(h) == DocsWithHash(h)

NoUniqueConstraint(h) == FALSE

\* content_hash = Column(String(64), unique=True, nullable=False)
UniqueViolation(h) == DocsWithHash(h) # {}

\* the handler returns r; outage: a store call raised
Respond(p, r, outage) ==
  /\ ing' = [ing EXCEPT ![p].pc = "done", ![p].resp = r, ![p].failed = outage]
  /\ firstId' = IF r.kind = "ok" /\ firstId[ing[p].content_hash] = 0
                  THEN [firstId EXCEPT ![ing[p].content_hash] = r.document_id]
                  ELSE firstId

\* content type and size checks, then the fingerprint
Receive(p, u) ==
  /\ ing[p].pc = "idle"
  /\ IF u.content_type # "application/pdf"
       THEN ing' = [ing EXCEPT ![p].pc = "done", ![p].up = u, ![p].resp = HttpError(400)]
     ELSE IF u.size > MaxFileSizeMB
       THEN ing' = [ing EXCEPT ![p].pc = "done", ![p].up = u, ![p].resp = HttpError(413)]
     ELSE ing' = [ing EXCEPT ![p].pc = "redis_get", ![p].up = u,
                             ![p].content_hash = Sha256(u.bytes),
                             ![p].after = firstId[Sha256(u.bytes)]]
  /\ UNCHANGED <<redisUp, rateVars, searchVars, textVars, docs, nextDocId, hashKey, firstId, dispatched,
                 job, chunks, nextChunkId, points, jobrec, lastProgress>>

\* cached_doc_id = redis_client.get("doc:hash:" + content_hash)
RedisGetHash(p) ==
  /\ ing[p].pc = "redis_get"
  /\ IF ~redisUp
       THEN Respond(p, HttpError(500), TRUE)
     ELSE IF hashKey[ing[p].content_hash] # 0
       THEN /\ ing' = [ing EXCEPT ![p].pc = "db_by_id",
                                  ![p].cached = hashKey[ing[p].content_hash]]
            /\ UNCHANGED firstId
     ELSE /\ ing' = [ing EXCEPT ![p].pc = "db_by_hash"]
          /\ UNCHANGED firstId
  /\ UNCHANGED <<redisUp, rateVars, searchVars, textVars, docs, nextDocId, hashKey, dispatched,
                 job, chunks, nextChunkId, points, jobrec, lastProgress>>

\* the marker was found: read the row for its status and answer
DbById(p) ==
  /\ ing[p].pc = "db_by_id"
  /\ LET id == ing[p].cached IN
     IF id \in DocIds /\ docs[id].present
       THEN Respond(p, Ok(id, docs[id].status), FALSE)
       ELSE Respond(p, HttpError(500), FALSE)
  /\ UNCHANGED <<redisUp, rateVars, searchVars, textVars, docs, nextDocId, hashKey, dispatched,
                 job, chunks, nextChunkId, points, jobrec, lastProgress>>

\* no marker: look the fingerprint up in the documents table; when it is not
\* there, read the PDF (422 when unreadable)
DbByHash(p) ==
  /\ ing[p].pc = "db_by_hash"
  /\ LET found == ExistingDocument(ing[p].content_hash) IN
     IF found # {}
       THEN Respond(p, Ok(CHOOSE d \in found : TRUE, "already_ingested db"), FALSE)
     ELSE IF ~ing[p].up.readable
       THEN Respond(p, HttpError(422), FALSE)
     ELSE /\ ing' = [ing EXCEPT ![p].pc = "commit"]
          /\ UNCHANGED firstId
  /\ UNCHANGED <<redisUp, rateVars, searchVars, textVars, docs, nextDocId, hashKey, dispatched,
                 job, chunks, nextChunkId, points, jobrec, lastProgress>>

\* db.add(document); db.commit(); db.refresh(document): content_hash is
\* unique, so the INSERT of a fingerprint that is already there fails and
\* the exception leaves the handler (500)
Commit(p) ==
  /\ ing[p].pc = "commit"
  /\ nextDocId \in DocIds
  /\ IF UniqueViolation(ing[p].content_hash)
       THEN /\ Respond(p, HttpError(500), FALSE)
            /\ UNCHANGED <<docs, nextDocId>>
       ELSE /\ docs' = [docs EXCEPT ![nextDocId] =
                 [present |-> TRUE, content_hash |-> ing[p].content_hash,
                  status |-> "queued"]]
            /\ nextDocId' = nextDocId + 1
            /\ ing' = [ing EXCEPT ![p].pc = "setex", ![p].doc = nextDocId,
                                  ![p].created = TRUE]
            /\ UNCHANGED firstId
  /\ UNCHANGED <<redisUp, rateVars, searchVars, textVars, hashKey, dispatched,
                 job, chunks, nextChunkId, points, jobrec, lastProgress>>

\* redis_client.setex("doc:hash:" + content_hash, 30 days, document.id)
SetexHash(p) ==
  /\ ing[p].pc = "setex"
  /\ IF ~redisUp
       THEN /\ Respond(p, HttpError(500), TRUE)
            /\ UNCHANGED hashKey
       ELSE /\ hashKey' = [hashKey EXCEPT ![ing[p].content_hash] = ing[p].doc]
            /\ ing' = [ing EXCEPT ![p].pc = "delay"]
            /\ UNCHANGED firstId
  /\ UNCHANGED <<redisUp, rateVars, searchVars, textVars, docs, nextDocId, dispatched,
                 job, chunks, nextChunkId, points, jobrec, lastProgress>>

\* process_document.delay(document.id, full_text) through the broker, which
\* is the same key-value store; then the response
Delay(p) ==
  /\ ing[p].pc = "delay"
  /\ IF ~redisUp
       THEN /\ Respond(p, HttpError(500), TRUE)
            /\ UNCHANGED <<job, dispatched>>
       ELSE /\ job' = [job EXCEPT ![ing[p].doc].pc = "queued"]
            /\ dispatched' = [dispatched EXCEPT ![ing[p].doc] = @ + 1]
            /\ ing' = [ing EXCEPT ![p].pc = "done", ![p].delayed = TRUE,
                                  ![p].resp = Ok(ing[p].doc, "queued")]
            /\ firstId' = IF firstId[ing[p].content_hash] = 0
                            THEN [firstId EXCEPT ![ing[p].content_hash] = ing[p].doc]
                            ELSE firstId
  /\ UNCHANGED <<redisUp, rateVars, searchVars, textVars, docs, nextDocId, hashKey,
                 chunks, nextChunkId, points, jobrec, lastProgress>>

\* the response has been sent; the worker takes the next upload
FinishIngest(p) ==
  /\ ing[p].pc = "done"
  /\ ing' = [ing EXCEPT ![p] = IdleIngest]
  /\ UNCHANGED <<redisUp, rateVars, searchVars, textVars, docs, nextDocId, hashKey, firstId, dispatched,
                 job, chunks, nextChunkId, points, jobrec, lastProgress>>

\* the 30 days of a doc:hash marker run out
MarkerExpire(h) ==
  /\ hashKey[h] # 0
  /\ hashKey' = [hashKey EXCEPT ![h] = 0]
  /\ UNCHANGED <<redisUp, rateVars, searchVars, textVars, docs, nextDocId, ing, firstId, dispatched,
                 job, chunks, nextChunkId, points, jobrec, lastProgress>>

(***************************************************************************)
(* Ingestion: the process_document task                                    *)
(***************************************************************************)
\* chunks the chunker may return for one document: 0..MaxChunks
MaxChunks == 2
\* embedding vectors are named 1..MaxVec
MaxVec == 3

NoJob == [pc |-> "none", n |-> 0, chunk_ids |-> <<>>, embeddings |-> <<>>,
          failedStep |-> "none", sessionOk |-> TRUE]
NoRec == [present |-> FALSE, status |-> "", progress |-> 0]

FirstFailure(d, step) == IF job[d].failedStep = "none" THEN step ELSE job[d].failedStep

\* redis_client.setex(job_key, 3600, json.dumps(job_data))
SetexJob(d, st, prog) ==
  /\ jobrec' = [jobrec EXCEPT ![d] = [present |-> TRUE, status |-> st, progress |-> prog]]
  /\ lastProgress' = [lastProgress EXCEPT ![d] = prog]

\* an exception reaches `except Exception as e`
Raise(d, step, sessOk) ==
  job' = [job EXCEPT ![d].pc = "handler", ![d].failedStep = FirstFailure(d, step),
                     ![d].sessionOk = sessOk]

\* the task starts: the row is read and set to processing
MarkProcessing(d) ==
  /\ job[d].pc = "queued"
  /\ IF ~docs[d].present
       THEN /\ job' = [job EXCEPT ![d].pc = "done"]
            /\ UNCHANGED docs
       ELSE /\ docs' = [docs EXCEPT ![d].status = "processing"]
            /\ job' = [job EXCEPT ![d].pc = "p20"]
  /\ UNCHANGED <<redisUp, rateVars, searchVars, textVars, nextDocId, hashKey, ing, firstId, dispatched,
                 chunks, nextChunkId, points, jobrec, lastProgress>>

\* job_data = {processing, 20}
Progress20(d) ==
  /\ job[d].pc = "p20"
  /\ IF redisUp
       THEN /\ SetexJob(d, "processing", 20)
            /\ job' = [job EXCEPT ![d].pc = "chunk"]
       ELSE /\ Raise(d, "store", TRUE)
            /\ UNCHANGED <<jobrec, lastProgress>>
  /\ UNCHANGED <<redisUp, rateVars, searchVars, textVars, docs, nextDocId, hashKey, ing, firstId,
                 dispatched, chunks, nextChunkId, points>>

\* chunks = smart_chunk_document(full_text), which returns n chunks or
\* raises; then progress 40
ChunkStep(d, n, raises) ==
  /\ job[d].pc = "chunk"
  /\ IF raises
       THEN /\ Raise(d, "chunk", TRUE)
            /\ UNCHANGED <<jobrec, lastProgress>>
     ELSE IF ~redisUp
       THEN /\ Raise(d, "store", TRUE)
            /\ UNCHANGED <<jobrec, lastProgress>>
     ELSE /\ SetexJob(d, "processing", 40)
          /\ job' = [job EXCEPT ![d].pc = "persist", ![d].n = n]
  /\ UNCHANGED <<redisUp, rateVars, searchVars, textVars, docs, nextDocId, hashKey, ing, firstId,
                 dispatched, chunks, nextChunkId, points>>

\* the text of chunk number i of document d (it stands for the chunker's text)
ChunkText(d, i) == <<"chunk", d, i>>

\* the pages and the token count the chunker gave chunk number i
ChunkPageStart(i) == i + 1
ChunkPageEnd(i) == i + 1 + (i % 2)
ChunkTokenCount(i) == i + 2

\* Chunk(document_id, ord, text, page_start, page_end, token_count) with the
\* id the database gave it
ChunkRow(id, d, i) ==
  [id |-> id, document_id |-> d, ord |-> i, text |-> ChunkText(d, i),
   page_start |-> ChunkPageStart(i), page_end |-> ChunkPageEnd(i),
   token_count |-> ChunkTokenCount(i)]

\* [0.0] * 1536: the all-zero vector, and its number of coordinates
ZeroVector == 0
ZeroVectorDim == 1536

\* the provider's embedding of a text: some vector in 1..MaxVec
EmbedText(t) == ((t[2] + t[3]) % MaxVec) + 1

\* openai.embeddings.create(model, input = texts): response.data, one
\* embedding per input text, in the order of the input
EmbeddingsCreate(texts) ==
  [i \in 1..Len(texts) |-> [index |-> i - 1, embedding |-> EmbedText(texts[i])]]

GenerateEmbeddingsOneZero(texts, providerFails) ==
  IF providerFails THEN <<ZeroVector>>
  ELSE [i \in 1..Len(texts) |-> EmbeddingsCreate(texts)[i].embedding]

\* generate_embeddings(texts): the embeddings of response.data, in its
\* order; when the provider call raises, one all-zero vector for each text
GenerateEmbeddings(texts, providerFails) ==
  IF providerFails THEN [i \in 1..Len(texts) |-> ZeroVector]
  ELSE LET data == EmbeddingsCreate(texts) IN
       [i \in 1..Len(data) |-> data[i].embedding]

\* one Chunk row per chunk (db.add, db.flush), db.commit(); the flush or the
\* commit may fail, and then the session may or may not take the handler's
\* commit; then progress 60
PersistStep(d, dbFails, sessOk) ==
  /\ job[d].pc = "persist"
  /\ IF dbFails
       THEN /\ Raise(d, "persist", sessOk)
            /\ UNCHANGED <<chunks, nextChunkId, jobrec, lastProgress>>
       ELSE /\ chunks' = chunks \cup
                 {ChunkRow(nextChunkId + i, d, i) : i \in 0..(job[d].n - 1)}
            /\ nextChunkId' = nextChunkId + job[d].n
            /\ IF redisUp
                 THEN /\ SetexJob(d, "processing", 60)
                      /\ job' = [job EXCEPT ![d].pc = "embed",
                           ![d].chunk_ids = [i \in 1..job[d].n |-> nextChunkId + i - 1]]
                 ELSE /\ job' = [job EXCEPT ![d].pc = "handler",
                           ![d].failedStep = FirstFailure(d, "store"),
                           ![d].chunk_ids = [i \in 1..job[d].n |-> nextChunkId + i - 1]]
                      /\ UNCHANGED <<jobrec, lastProgress>>
  /\ UNCHANGED <<redisUp, rateVars, searchVars, textVars, docs, nextDocId, hashKey, ing, firstId,
                 dispatched, points>>

\* embeddings = generate_embeddings(chunk_texts): the provider's vectors, or
\* all-zero vectors when the provider call fails (no exception); progress 80
EmbedStep(d, providerFails) ==
  /\ job[d].pc = "embed"
  /\ IF redisUp
       THEN /\ SetexJob(d, "processing", 80)
            /\ job' = [job EXCEPT ![d].pc = "upsert",
                 ![d].embeddings = GenerateEmbeddings(
                    [i \in 1..job[d].n |-> ChunkText(d, i - 1)], providerFails),
                 ![d].failedStep = IF providerFails THEN FirstFailure(d, "embed")
                                                    ELSE job[d].failedStep]
       ELSE /\ Raise(d, "store", TRUE)
            /\ UNCHANGED <<jobrec, lastProgress>>
  /\ UNCHANGED <<redisUp, rateVars, searchVars, textVars, docs, nextDocId, hashKey, ing, firstId,
                 dispatched, chunks, nextChunkId, points>>

\* the points of one upsert, over zip(chunk_ids, embeddings): id = chunk id,
\* the vector, payload {chunk_id, document_id}
PointsOf(chunk_ids, embeddings, document_id) ==
  {[id |-> chunk_ids[i], vector |-> embeddings[i], chunk_id |-> chunk_ids[i],
    document_id |-> document_id] :
     i \in 1..(IF Len(chunk_ids) <= Len(embeddings) THEN Len(chunk_ids)
                                                     ELSE Len(embeddings))}

\* qdrant_client.upsert(...) inside its own try: a failure is logged and
\* the task goes on
UpsertStep(d, qdrantFails) ==
  /\ job[d].pc = "upsert"
  /\ IF qdrantFails
       THEN /\ job' = [job EXCEPT ![d].pc = "ready",
                                  ![d].failedStep = FirstFailure(d, "upsert")]
            /\ UNCHANGED points
       ELSE /\ points' = points \cup PointsOf(job[d].chunk_ids, job[d].embeddings, d)
            /\ job' = [job EXCEPT ![d].pc = "ready"]
  /\ UNCHANGED <<redisUp, rateVars, searchVars, textVars, docs, nextDocId, hashKey, ing, firstId,
                 dispatched, chunks, nextChunkId, jobrec, lastProgress>>

\* document.status = "ready"; db.commit()
MarkReady(d) ==
  /\ job[d].pc = "ready"
  /\ docs' = [docs EXCEPT ![d].status = "ready"]
  /\ job' = [job EXCEPT ![d].pc = "p100"]
  /\ UNCHANGED <<redisUp, rateVars, searchVars, textVars, nextDocId, hashKey, ing, firstId, dispatched,
                 chunks, nextChunkId, points, jobrec, lastProgress>>

Progress100Resets(d) ==
  /\ job[d].pc = "p100"
  /\ IF redisUp
       THEN /\ SetexJob(d, "ready", 0)
            /\ job' = [job EXCEPT ![d].pc = "done"]
       ELSE /\ Raise(d, "store", TRUE)
            /\ UNCHANGED <<jobrec, lastProgress>>
  /\ UNCHANGED <<redisUp, rateVars, searchVars, textVars, docs, nextDocId, hashKey, ing, firstId,
                 dispatched, chunks, nextChunkId, points>>

\* job_data = {ready, 100}
Progress100(d) ==
  /\ job[d].pc = "p100"
  /\ IF redisUp
       THEN /\ SetexJob(d, "ready", 100)
            /\ job' = [job EXCEPT ![d].pc = "done"]
       ELSE /\ Raise(d, "store", TRUE)
            /\ UNCHANGED <<jobrec, lastProgress>>
  /\ UNCHANGED <<redisUp, rateVars, searchVars, textVars, docs, nextDocId, hashKey, ing, firstId,
                 dispatched, chunks, nextChunkId, points>>

\* except Exception: document.status = "failed"; db.commit(); the record
\* {failed, 0}. A commit the session refuses, or a store that is still down,
\* raises out of the handler and ends the task there.
Handler(d) ==
  /\ job[d].pc = "handler"
  /\ job' = [job EXCEPT ![d].pc = "done", ![d].sessionOk = TRUE]
  /\ IF ~job[d].sessionOk
       THEN UNCHANGED <<docs, jobrec, lastProgress>>
       ELSE /\ docs' = [docs EXCEPT ![d].status = "failed"]
            /\ IF redisUp THEN SetexJob(d, "failed", 0)
                          ELSE UNCHANGED <<jobrec, lastProgress>>
  /\ UNCHANGED <<redisUp, rateVars, searchVars, textVars, nextDocId, hashKey, ing, firstId, dispatched,
                 chunks, nextChunkId, points>>

\* the hour of a job record runs out
JobRecExpire(d) ==
  /\ jobrec[d].present
  /\ jobrec' = [jobrec EXCEPT ![d] = NoRec]
  /\ UNCHANGED <<redisUp, rateVars, searchVars, textVars, docs, nextDocId, hashKey, ing, firstId,
                 dispatched, job, chunks, nextChunkId, points, lastProgress>>

\* GET /jobs/{job_id}: the fields status and progress of the response
GetJobStatus(d) ==
  IF ~docs[d].present THEN [code |-> 404, status |-> "", progress |-> 0]
  ELSE IF ~redisUp THEN [code |-> 500, status |-> "", progress |-> 0]
  ELSE IF jobrec[d].present
    THEN [code |-> 200, status |-> jobrec[d].status, progress |-> jobrec[d].progress]
    ELSE [code |-> 200, status |-> docs[d].status,
          progress |-> IF docs[d].status = "completed" THEN 100 ELSE 0]

IngestIdle ==
  /\ docs = [d \in DocIds |-> NoDoc]
  /\ nextDocId = 1
  /\ hashKey = [h \in Hashes |-> 0]
  /\ ing = [p \in IProcs |-> IdleIngest]
  /\ firstId = [h \in Hashes |-> 0]
  /\ dispatched = [d \in DocIds |-> 0]
  /\ job = [d \in DocIds |-> NoJob]
  /\ chunks = {}
  /\ nextChunkId = 1
  /\ points = {}
  /\ jobrec = [d \in DocIds |-> NoRec]
  /\ lastProgress = [d \in DocIds |-> 0]

(***************************************************************************)
(* Retrieval: search_similar_chunks and enhanced_search                    *)
(***************************************************************************)
\* chunks per indexed document in the retrieval specification: 0..IndexedChunks
IndexedChunks == 3
\* sub-questions the planner may return: 0..MaxPlanned
MaxPlanned == 2
\* sub-questions the planner may return where the ceiling is looked at:
\* 0..MaxReturned, more than the ceiling of 6
MaxReturned == 7
\* chunks of the larger indexed document where the cut of the result is
\* looked at: more than the 8 a result holds
ManyChunks == 9

\* document_id = None
NoneId == -1
\* top_k of the fallback search, top_k per sub-question, the ceiling on
\* sub-questions, the minimum of unique chunks, the size of the result
FallbackTopK == 8
SubTopK == 3
MaxSubQuestions == 6
MinUnique == 3
ResultTopK == 8

SearchDocs == {1, 2}
Questions == {<<"question", 0, 1>>, <<"question", 0, 2>>}
SubQuestion(i) == <<"sub", 0, i>>
\* the i-th character of a string, taken as a text
Character(i) == <<"char", 0, i>>

\* what the completion provider may answer the planner's call with:
\*   api_error         the call raises
\*   no_function_call  a message without the function call
\*   bad_json          arguments that are no JSON
\*   not_object        arguments that are JSON but no object
\*   null_list         an object whose sub_questions is null
\*   missing_list      an object without sub_questions
\*   string_list       an object whose sub_questions is a string of n characters
\*   big_object        an object whose sub_questions is an object of more
\*                     than 6 keys
\*   ok                an object whose sub_questions is a list of n strings
PlanOutcomes ==
  {"api_error", "no_function_call", "bad_json", "not_object", "null_list",
   "missing_list", "string_list", "big_object", "ok"}

NoEs == [pc |-> "idle", kind |-> "none", question |-> <<"", 0, 0>>,
         document_id |-> NoneId, planned |-> "none", returned |-> <<>>,
         sub_questions |-> <<>>,
         i |-> 0, all_chunks |-> <<>>, calls |-> <<>>, result |-> <<>>,
         raised |-> FALSE]

\* the index's similarity of two vectors, higher is closer; an all-zero
\* vector is close to nothing
Similarity(q, v) ==
  IF q = ZeroVector \/ v = ZeroVector THEN 0
  ELSE IF q >= v THEN MaxVec - (q - v) ELSE MaxVec - (v - q)

QueryFilterOff(document_id, pt) == TRUE

\* query_filter: must match payload document_id, added when document_id is
\* not None
QueryFilter(document_id, pt) ==
  document_id = NoneId \/ pt.document_id = document_id

\* the index's order of two hits: by score, equal scores by id
Before(q, a, b) ==
  \/ Similarity(q, a.vector) > Similarity(q, b.vector)
  \/ /\ Similarity(q, a.vector) = Similarity(q, b.vector)
     /\ IF tieAsc THEN a.id < b.id ELSE a.id > b.id

RECURSIVE Ranked(_, _, _)
Ranked(q, S, k) ==
  IF S = {} \/ k <= 0 THEN <<>>
  ELSE LET best == CHOOSE a \in S : \A b \in S \ {a} : Before(q, a, b)
       IN <<best>> \o Ranked(q, S \ {best}, k - 1)

QdrantSearchNoLimit(q, top_k, document_id) ==
  Ranked(q, {pt \in points : QueryFilter(document_id, pt)}, Cardinality(points))

\* qdrant_client.search(collection "embeddings", query_vector, limit,
\* query_filter): the `limit` closest matching points, closest first
QdrantSearch(q, top_k, document_id) ==
  Ranked(q, {pt \in points : QueryFilter(document_id, pt)}, top_k)

\* the loop over search_results: the Chunk row of each hit, skipped when
\* there is none
RECURSIVE JoinChunks(_, _)
JoinChunks(q, hits) ==
  IF hits = <<>> THEN <<>>
  ELSE LET rows == {c \in chunks : c.id = hits[1].id}
           rest == JoinChunks(q, Tail(hits))
       IN IF rows = {} THEN rest
          ELSE LET chunk == CHOOSE c \in rows : TRUE IN
               <<[chunk_id |-> hits[1].id,
                  similarity_score |-> Similarity(q, hits[1].vector),
                  text |-> chunk.text, page_start |-> chunk.page_start,
                  page_end |-> chunk.page_end,
                  token_count |-> chunk.token_count]>> \o rest

\* search_similar_chunks(query_embedding, top_k, document_id); any exception,
\* of the search in the index or of a query for a Chunk row, gives the empty
\* list
SearchSimilarChunks(q, top_k, document_id, fails) ==
  IF fails THEN <<>> ELSE JoinChunks(q, QdrantSearch(q, top_k, document_id))

\* one call of search_similar_chunks, as logged in es.calls
Call(q, top_k, document_id, fails) ==
  [query |-> q, top_k |-> top_k, document_id |-> document_id, failed |-> fails,
   result |-> SearchSimilarChunks(q, top_k, document_id, fails)]

\* split_question_structured(question): the parsed arguments as they are, or
\* the error marker when the call raises, no function call comes back,
\* json.loads raises, or the logging line raises (arguments.get on what is
\* no object, len of what has no length)
SplitQuestionStructured(outcome, n) ==
  IF outcome \in {"api_error", "no_function_call", "bad_json", "not_object", "null_list"}
    THEN [error |-> TRUE, sliceable |-> TRUE, sub_questions |-> <<>>]
  ELSE IF outcome = "big_object"
    THEN [error |-> FALSE, sliceable |-> FALSE, sub_questions |-> <<>>]
  ELSE IF outcome = "missing_list"
    THEN [error |-> FALSE, sliceable |-> TRUE, sub_questions |-> <<>>]
  ELSE IF outcome = "string_list"
    THEN [error |-> FALSE, sliceable |-> TRUE,
          sub_questions |-> [i \in 1..n |-> Character(i)]]
  ELSE [error |-> FALSE, sliceable |-> TRUE,
        sub_questions |-> [i \in 1..n |-> SubQuestion(i)]]

\* deduplicate_chunks(chunks): the first occurrence of every chunk_id, in order
RECURSIVE DedupFrom(_, _, _)
DedupFrom(cs, i, seen_ids) ==
  IF i > Len(cs) THEN <<>>
  ELSE IF cs[i].chunk_id \in seen_ids THEN DedupFrom(cs, i + 1, seen_ids)
  ELSE <<cs[i]>> \o DedupFrom(cs, i + 1, seen_ids \cup {cs[i].chunk_id})

RECURSIVE DedupLastFrom(_, _)
DedupLastFrom(cs, i) ==
  IF i > Len(cs) THEN <<>>
  ELSE IF \E j \in (i + 1)..Len(cs) : cs[j].chunk_id = cs[i].chunk_id
    THEN DedupLastFrom(cs, i + 1)
  ELSE <<cs[i]>> \o DedupLastFrom(cs, i + 1)

DeduplicateChunksLast(cs) == DedupLastFrom(cs, 1)

DeduplicateChunks(cs) == DedupFrom(cs, 1, {})

\* unique_chunks.sort(key = similarity_score, reverse = True): a stable sort,
\* equal scores keep their order
RECURSIVE InsertByScore(_, _)
InsertByScore(sorted, c) ==
  IF sorted = <<>> THEN <<c>>
  ELSE IF sorted[1].similarity_score >= c.similarity_score
    THEN <<sorted[1]>> \o InsertByScore(Tail(sorted), c)
    ELSE <<c>> \o sorted

RECURSIVE SortByScore(_, _)
SortByScore(cs, i) ==
  IF i = 0 THEN <<>> ELSE InsertByScore(SortByScore(cs, i - 1), cs[i])

TakeAll(seq, k) == seq

\* seq[:k]
Take(seq, k) == SubSeq(seq, 1, IF Len(seq) <= k THEN Len(seq) ELSE k)

\* search_similar_chunks(generate_embeddings([question])[0], top_k = 8,
\* document_id = document_id)
FallbackCall(question, document_id, embFails, searchFails) ==
  Call(GenerateEmbeddings(<<question>>, embFails)[1], FallbackTopK, document_id,
       searchFails)

\* a caller runs search_similar_chunks by itself
DirectSearch(q, top_k, document_id, fails) ==
  /\ es.pc = "idle"
  /\ LET c == Call(q, top_k, document_id, fails) IN
     es' = [es EXCEPT !.pc = "done", !.kind = "search", !.document_id = document_id,
                      !.calls = <<c>>, !.result = c.result]
  /\ UNCHANGED <<redisUp, rateVars, ingestVars, tieAsc, textVars>>

\* enhanced_search(question, document_id) is called
StartEnhanced(question, document_id) ==
  /\ es.pc = "idle"
  /\ es' = [es EXCEPT !.pc = "plan", !.kind = "enhanced", !.question = question,
                      !.document_id = document_id]
  /\ UNCHANGED <<redisUp, rateVars, ingestVars, tieAsc, textVars>>

\* parsed = split_question_structured(question); the error marker goes to
\* the simple search; sub_questions[:6] of something that cannot be sliced
\* raises into the outer except, which runs the same simple search; anything
\* else that can be iterated is taken as the list of sub-questions
Plan(outcome, n) ==
  /\ es.pc = "plan"
  /\ LET parsed == SplitQuestionStructured(outcome, n) IN
     IF parsed.error \/ ~parsed.sliceable
       THEN es' = [es EXCEPT !.pc = "fallback", !.planned = outcome]
       ELSE es' = [es EXCEPT !.pc = IF Len(parsed.sub_questions) = 0 THEN "aggregate"
                                                                     ELSE "sub",
                             !.planned = outcome,
                             !.returned = parsed.sub_questions,
                             !.sub_questions = Take(parsed.sub_questions, MaxSubQuestions),
                             !.i = 1]
  /\ UNCHANGED <<redisUp, rateVars, ingestVars, tieAsc, textVars>>

\* one turn of the loop: embed the sub-question, search with top_k = 3
SubStep(embFails, searchFails) ==
  /\ es.pc = "sub"
  /\ LET c == Call(GenerateEmbeddings(<<es.sub_questions[es.i]>>, embFails)[1],
                   SubTopK, es.document_id, searchFails)
     IN es' = [es EXCEPT !.calls = Append(@, c),
                         !.all_chunks = @ \o c.result,
                         !.i = @ + 1,
                         !.pc = IF es.i >= Len(es.sub_questions) THEN "aggregate"
                                                                 ELSE "sub"]
  /\ UNCHANGED <<redisUp, rateVars, ingestVars, tieAsc, textVars>>

AggregateNoFallback ==
  /\ es.pc = "aggregate"
  /\ LET unique_chunks == DeduplicateChunks(es.all_chunks)
         sorted == SortByScore(unique_chunks, Len(unique_chunks))
     IN es' = [es EXCEPT !.pc = "done", !.result = Take(sorted, ResultTopK)]
  /\ UNCHANGED <<redisUp, rateVars, ingestVars, tieAsc, textVars>>

\* deduplicate, sort by score, and either return the first 8 or, with fewer
\* than 3 unique chunks, go to the simple search
Aggregate ==
  /\ es.pc = "aggregate"
  /\ LET unique_chunks == DeduplicateChunks(es.all_chunks)
         sorted == SortByScore(unique_chunks, Len(unique_chunks))
     IN IF Len(sorted) < MinUnique
          THEN es' = [es EXCEPT !.pc = "fallback"]
          ELSE es' = [es EXCEPT !.pc = "done", !.result = Take(sorted, ResultTopK)]
  /\ UNCHANGED <<redisUp, rateVars, ingestVars, tieAsc, textVars>>

\* the simple search over the original question
Fallback(embFails, searchFails) ==
  /\ es.pc = "fallback"
  /\ LET c == FallbackCall(es.question, es.document_id, embFails, searchFails) IN
     es' = [es EXCEPT !.pc = "done", !.calls = Append(@, c), !.result = c.result]
  /\ UNCHANGED <<redisUp, rateVars, ingestVars, tieAsc, textVars>>

\* the caller has its list
FinishSearch ==
  /\ es.pc = "done"
  /\ es' = NoEs
  /\ UNCHANGED <<redisUp, rateVars, ingestVars, tieAsc, textVars>>

SearchIdle ==
  /\ es = NoEs
  /\ tieAsc = TRUE

\* the stores as process_document leaves them for documents 1 and 2 with
\* n[1] and n[2] chunks, document 1 handled first; zeroDoc is the document
\* whose embeddings call failed (0: none)
Base(n, d) == IF d = 1 THEN 0 ELSE n[1]
ChunkIdsOf(n, d) == [i \in 1..n[d] |-> Base(n, d) + i]
ChunkTextsOf(n, d) == [i \in 1..n[d] |-> ChunkText(d, i - 1)]

BytesOf(d) == IF d = 1 THEN "pdfA" ELSE "pdfB"

Indexed(n, zeroDoc) ==
  /\ docs = [d \in DocIds |->
       IF d \in SearchDocs
         THEN [present |-> TRUE, content_hash |-> Sha256(BytesOf(d)), status |-> "ready"]
         ELSE NoDoc]
  /\ nextDocId = 3
  /\ hashKey = [h \in Hashes |->
       IF \E d \in SearchDocs : h = Sha256(BytesOf(d))
         THEN CHOOSE d \in SearchDocs : h = Sha256(BytesOf(d)) ELSE 0]
  /\ firstId = hashKey
  /\ dispatched = [d \in DocIds |-> IF d \in SearchDocs THEN 1 ELSE 0]
  /\ job = [d \in DocIds |->
       IF d \in SearchDocs
         THEN [NoJob EXCEPT !.pc = "done", !.n = n[d], !.chunk_ids = ChunkIdsOf(n, d),
                 !.embeddings = GenerateEmbeddings(ChunkTextsOf(n, d), d = zeroDoc)]
         ELSE NoJob]
  /\ jobrec = [d \in DocIds |->
       IF d \in SearchDocs THEN [present |-> TRUE, status |-> "ready", progress |-> 100]
                           ELSE NoRec]
  /\ lastProgress = [d \in DocIds |-> IF d \in SearchDocs THEN 100 ELSE 0]
  /\ chunks = UNION {{ChunkRow(Base(n, d) + i + 1, d, i) : i \in 0..(n[d] - 1)} :
                       d \in SearchDocs}
  /\ nextChunkId = n[1] + n[2] + 1
  /\ points = UNION {PointsOf(ChunkIdsOf(n, d),
                              GenerateEmbeddings(ChunkTextsOf(n, d), d = zeroDoc), d) :
                       d \in SearchDocs}

(***************************************************************************)
(* Questions: normalize_question and the cache key                         *)
(***************************************************************************)
\* questions are strings of at most MaxQLen characters
MaxQLen == 3

\* the characters questions are made of; str.isspace holds of the space and
\* the tab
Whitespace == {" ", "\t"}
Punctuation == {"?", ".", ",", "\"", "'"}
Alphabet == {"a", "A", " ", "\t", "?", ".", "'"}

\* the sequences of at most n elements of A
StringsOf(A, n) == UNION {[1..k -> A] : k \in 0..n}

QuestionStrings == StringsOf(Alphabet, MaxQLen)

\* str.lower()
LowerChar(c) == IF c = "A" THEN "a" ELSE c
Lower(str) == [i \in 1..Len(str) |-> LowerChar(str[i])]

\* str.strip(): without the whitespace at both ends
RECURSIVE LStrip(_)
LStrip(str) ==
  IF str # <<>> /\ str[1] \in Whitespace THEN LStrip(Tail(str)) ELSE str

RECURSIVE RStrip(_)
RStrip(str) ==
  IF str # <<>> /\ str[Len(str)] \in Whitespace
    THEN RStrip(SubSeq(str, 1, Len(str) - 1)) ELSE str

Strip(str) == RStrip(LStrip(str))

\* re.sub(r'\s+', ' ', str): every run of whitespace becomes one space
RECURSIVE CollapseWhitespace(_)
CollapseWhitespace(str) ==
  IF str = <<>> THEN <<>>
  ELSE IF str[1] \in Whitespace THEN <<" ">> \o CollapseWhitespace(LStrip(str))
  ELSE <<str[1]>> \o CollapseWhitespace(Tail(str))

\* str.replace(c, '') for every c of chars
RemoveChars(str, chars) == SelectSeq(str, LAMBDA c : c \notin chars)

NormalizeNoLower(question) ==
  RemoveChars(CollapseWhitespace(Strip(question)), Punctuation)

\* normalize_question(question): lower().strip(), collapse whitespace, then
\* remove ? . , " '
NormalizeQuestion(question) ==
  RemoveChars(CollapseWhitespace(Strip(Lower(question))), Punctuation)

\* hashlib.md5(normalized.encode()).hexdigest(): one digest per string
Md5(str) == <<"md5", str>>

\* cache_key = "answer:" + question_hash
CacheKeyOf(question) == <<"answer:", Md5(NormalizeQuestion(question))>>

NoNq == [pc |-> "idle", rel |-> "none", q1 |-> <<>>, n1 |-> <<>>, key1 |-> <<>>,
         q2 |-> <<>>, n2 |-> <<>>, key2 |-> <<>>]

\* the ways a second question may differ from a first one
SwapCase(c) == IF c = "a" THEN "A" ELSE IF c = "A" THEN "a" ELSE c
IsLetter(c) == c \notin Whitespace /\ c \notin Punctuation
InsertAt(str, i, c) == SubSeq(str, 1, i) \o <<c>> \o SubSeq(str, i + 1, Len(str))
RemoveAt(str, i) == SubSeq(str, 1, i - 1) \o SubSeq(str, i + 1, Len(str))

\* another letter case at one position
CaseVariants(q) == {[q EXCEPT ![i] = SwapCase(q[i])] : i \in 1..Len(q)} \ {q}

\* one whitespace character more or less at an end
OuterSpaceVariants(q) ==
  {<<w>> \o q : w \in Whitespace} \cup {Append(q, w) : w \in Whitespace}
  \cup (IF q # <<>> /\ q[1] \in Whitespace THEN {Tail(q)} ELSE {})
  \cup (IF q # <<>> /\ q[Len(q)] \in Whitespace
          THEN {SubSeq(q, 1, Len(q) - 1)} ELSE {})

\* a '?' or '.' more or less directly behind the last word
TailVariants(q) ==
  LET k == Len(RStrip(q)) IN
  (IF k >= 1 /\ IsLetter(q[k]) THEN {InsertAt(q, k, p) : p \in {"?", "."}} ELSE {})
  \cup (IF k >= 2 /\ q[k] \in {"?", "."} /\ IsLetter(q[k - 1])
          THEN {RemoveAt(q, k)} ELSE {})

\* one of the stripped punctuation characters more or less, anywhere
PunctVariants(q) ==
  {InsertAt(q, i, p) : i \in 0..Len(q), p \in Punctuation}
  \cup {RemoveAt(q, i) : i \in {j \in 1..Len(q) : q[j] \in Punctuation}}

Variants(rel, q) ==
  CASE rel = "case" -> CaseVariants(q)
    [] rel = "outer_space" -> OuterSpaceVariants(q)
    [] rel = "tail" -> TailVariants(q)
    [] rel = "punct" -> PunctVariants(q)

Relations == {"case", "outer_space", "tail", "punct"}

\* a first question is normalized and keyed
Lookup(q) ==
  /\ nq.pc = "idle"
  /\ nq' = [nq EXCEPT !.pc = "one", !.q1 = q, !.n1 = NormalizeQuestion(q),
                      !.key1 = CacheKeyOf(q)]
  /\ UNCHANGED <<redisUp, rateVars, ingestVars, searchVars, ans, cache, ck, ask>>

\* a second question, a variant of the first, is normalized and keyed
LookupVariant(rel) ==
  /\ nq.pc = "one"
  /\ \E q \in Variants(rel, nq.q1) :
     nq' = [nq EXCEPT !.pc = "two", !.rel = rel, !.q2 = q,
                      !.n2 = NormalizeQuestion(q), !.key2 = CacheKeyOf(q)]
  /\ UNCHANGED <<redisUp, rateVars, ingestVars, searchVars, ans, cache, ck, ask>>

ForgetQuestions ==
  /\ nq.pc = "two"
  /\ nq' = NoNq
  /\ UNCHANGED <<redisUp, rateVars, ingestVars, searchVars, ans, cache, ck, ask>>

(***************************************************************************)
(* Answers: generate_answer_with_citations, parse_llm_response, the cache  *)
(***************************************************************************)
\* candidates per call: 0..MaxCands; lines of a citations section: 0..MaxLines
MaxCands == 3
MaxLines == 2

\* characters of a chunk's text a citation shows before the ellipsis
PreviewLen == 200

\* the ranked candidates a call may be given: chunk dicts, the text with its
\* number of characters
Candidates ==
  { [chunk_id |-> 1, text |-> <<"chunk", 1, 0>>, chars |-> 150, page_start |-> 1, page_end |-> 1],
    [chunk_id |-> 2, text |-> <<"chunk", 1, 1>>, chars |-> 250, page_start |-> 1, page_end |-> 2] }

CandidateLists == StringsOf(Candidates, MaxCands)

\* the lines a citations section is made of: a quote with or without its
\* quotation marks, an empty line, a line that starts with '#', a line of
\* quotation marks only
Lines ==
  { [kind |-> "quote", body |-> "q1", quoted |-> TRUE],
    [kind |-> "quote", body |-> "q2", quoted |-> FALSE],
    [kind |-> "blank", body |-> "", quoted |-> FALSE],
    [kind |-> "comment", body |-> "#", quoted |-> FALSE],
    [kind |-> "bare", body |-> "", quoted |-> TRUE] }

LastQuote == [kind |-> "quote", body |-> "q3", quoted |-> TRUE]

\* the completion's text: whether it holds "ANSWER:", and the sections that
\* follow each "CITATIONS:" in it (none, one, or two with one more quote
\* behind the second marker)
Responses ==
  { [answer_marker |-> a, sections |-> ss] :
      a \in BOOLEAN,
      ss \in {<<>>} \cup {<<ls>> : ls \in StringsOf(Lines, MaxLines)}
                    \cup {<<ls, <<LastQuote>>>> : ls \in StringsOf(Lines, MaxLines)} }

NoResponse == [answer_marker |-> FALSE, sections |-> <<>>]

\* what client.chat.completions.create does: raises, answers without
\* content, or answers with a text
ProviderOutcomes == {"raises", "no_content", "text"}

AnswerQuestions == {<<"a">>, <<"A", "?">>}
AnswerKeys == {CacheKeyOf(q) : q \in AnswerQuestions}

\* line.strip('"').strip("'").strip()
StripQuotes(line) == line.body

\* the loop of parse_llm_response over the lines of the section: empty
\* lines, '#' lines and lines that are empty without their quotation marks
\* are skipped
RECURSIVE ExactQuotes(_)
ExactQuotes(lines) ==
  IF lines = <<>> THEN <<>>
  ELSE IF lines[1].kind \in {"blank", "comment"} THEN ExactQuotes(Tail(lines))
  ELSE IF StripQuotes(lines[1]) = "" THEN ExactQuotes(Tail(lines))
  ELSE <<StripQuotes(lines[1])>> \o ExactQuotes(Tail(lines))

\* parse_llm_response(response_text): with both markers in the text, the
\* answer is what precedes the first "CITATIONS:" and the quotes are the
\* lines between the first "CITATIONS:" and the next; else the whole text is
\* the answer and there are no quotes
ParseLlmResponse(response) ==
  IF response.answer_marker /\ Len(response.sections) > 0
    THEN [answer |-> <<"answer_part", response>>,
          exact_quotes |-> ExactQuotes(response.sections[1])]
    ELSE [answer |-> <<"response_text", response>>, exact_quotes |-> <<>>]

\* chunk['text'][:200] + "..." if len(chunk['text']) > 200 else chunk['text']
Preview(chunk) ==
  IF chunk.chars > PreviewLen THEN <<"first", PreviewLen, chunk.text, "...">>
  ELSE chunk.text

\* the Citation built for one chunk, its exact_text empty
CitationOf(chunk) ==
  [text |-> Preview(chunk), page_start |-> chunk.page_start,
   page_end |-> chunk.page_end, chunk_id |-> chunk.chunk_id, exact_text |-> "",
   search_pages |-> IF chunk.page_end # chunk.page_start
                      THEN <<chunk.page_start, chunk.page_end>>
                      ELSE <<chunk.page_start>>]

FillQuotesShifted(citations, exact_quotes) ==
  [i \in 1..Len(citations) |->
     IF i + 1 <= Len(exact_quotes)
       THEN [citations[i] EXCEPT !.exact_text = exact_quotes[i + 1]]
       ELSE citations[i]]

\* for i, quote in enumerate(exact_quotes): if i < len(citations):
\*   citations[i].exact_text = quote
FillQuotes(citations, exact_quotes) ==
  [i \in 1..Len(citations) |->
     IF i <= Len(exact_quotes) THEN [citations[i] EXCEPT !.exact_text = exact_quotes[i]]
     ELSE citations[i]]

NoEntry == [present |-> FALSE, answer |-> <<>>, citations |-> <<>>, document_id |-> 0]

\* cache_answer(question, answer, citations, document_id): the entry under
\* the question's key, for an hour; a store that is down is only printed
CacheAnswer(question, answer, citations, document_id) ==
  IF redisUp
    THEN cache' = [cache EXCEPT ![CacheKeyOf(question)] =
                     [present |-> TRUE, answer |-> answer, citations |-> citations,
                      document_id |-> document_id]]
    ELSE UNCHANGED cache

NoAns == [pc |-> "idle", question |-> <<>>, chunks |-> <<>>, document_id |-> 0,
          outcome |-> "none", response |-> NoResponse, answer |-> <<>>,
          citations |-> <<>>, raised |-> FALSE]

GenerateAnswerPropagates(question, chunk_list, document_id, outcome, response) ==
  /\ ans.pc = "idle"
  /\ LET citations == [i \in 1..Len(chunk_list) |-> CitationOf(chunk_list[i])] IN
     IF outcome = "text"
       THEN LET parsed == ParseLlmResponse(response)
                filled == FillQuotes(citations, parsed.exact_quotes)
            IN /\ ans' = [pc |-> "done", question |-> question, chunks |-> chunk_list,
                          document_id |-> document_id, outcome |-> outcome,
                          response |-> response, answer |-> parsed.answer,
                          citations |-> filled, raised |-> FALSE]
               /\ CacheAnswer(question, parsed.answer, filled, document_id)
       ELSE /\ ans' = [pc |-> "done", question |-> question, chunks |-> chunk_list,
                       document_id |-> document_id, outcome |-> outcome,
                       response |-> NoResponse, answer |-> <<>>,
                       citations |-> <<>>, raised |-> TRUE]
            /\ UNCHANGED cache
  /\ UNCHANGED <<redisUp, rateVars, ingestVars, searchVars, nq, ck, ask>>

\* generate_answer_with_citations(question, chunks, document_id), the
\* provider ending in outcome and, when it answers, with response
GenerateAnswerWithCitations(question, chunk_list, document_id, outcome, response) ==
  /\ ans.pc = "idle"
  /\ LET citations == [i \in 1..Len(chunk_list) |-> CitationOf(chunk_list[i])] IN
     IF outcome = "text"
       THEN LET parsed == ParseLlmResponse(response)
                filled == FillQuotes(citations, parsed.exact_quotes)
            IN /\ ans' = [pc |-> "done", question |-> question, chunks |-> chunk_list,
                          document_id |-> document_id, outcome |-> outcome,
                          response |-> response, answer |-> parsed.answer,
                          citations |-> filled, raised |-> FALSE]
               /\ CacheAnswer(question, parsed.answer, filled, document_id)
       ELSE /\ ans' = [pc |-> "done", question |-> question, chunks |-> chunk_list,
                       document_id |-> document_id, outcome |-> outcome,
                       response |-> NoResponse,
                       answer |-> <<"Error generating answer: ", outcome>>,
                       citations |-> citations, raised |-> FALSE]
            /\ UNCHANGED cache
  /\ UNCHANGED <<redisUp, rateVars, ingestVars, searchVars, nq, ck, ask>>

\* a caller synthesizes an answer
Synthesize ==
  /\ ans.pc = "idle"
  /\ \E q \in AnswerQuestions, cs \in CandidateLists, d \in SearchDocs,
        o \in ProviderOutcomes, r \in Responses :
       GenerateAnswerWithCitations(q, cs, d, o, r)

\* the hour of an entry is over
CacheExpire(k) ==
  /\ cache[k].present
  /\ cache' = [cache EXCEPT ![k] = NoEntry]
  /\ UNCHANGED <<redisUp, rateVars, ingestVars, searchVars, nq, ans, ck, ask>>

(***************************************************************************)
(* Chunks: smart_chunk_document                                            *)
(***************************************************************************)
\* texts of at most MaxUnits units (page markers and sentences), chunked
\* with chunk_size = ChunkSize tokens and overlap = Overlap tokens
MaxUnits == 5
ChunkSize == 4
Overlap == 2
MaxPage == 2

\* the lengths of sentences in tokens: short, nearly a chunk, more than a
\* chunk
SentenceTokens == {1, ChunkSize - 1, ChunkSize + 1}

\* a text is a sequence of units: "[PAGE:n]" or a sentence that ends in
\* terminal punctuation (or at the next marker), whitespace between them
Units ==
  {[kind |-> "marker", page |-> n, tokens |-> 0] : n \in 1..MaxPage}
  \cup {[kind |-> "sentence", page |-> 0, tokens |-> t] : t \in SentenceTokens}

Texts == StringsOf(Units, MaxUnits)

\* encoding.encode(sentence): the tokens of the k-th unit of the text
Encode(text, k) == [j \in 1..text[k].tokens |-> <<k, j>>]

\* re.split(r'(?<=[.!?])\s+|(?=\[PAGE:\d+\])', text): the text is cut behind
\* the whitespace that follows terminal punctuation and in front of every
\* marker, not behind a marker; a piece is a marker with what follows it up
\* to the next cut, or a sentence. sentence = 0: nothing follows the marker
RECURSIVE SplitFrom(_, _)
SplitFrom(text, k) ==
  IF k > Len(text) THEN <<>>
  ELSE IF text[k].kind = "marker"
    THEN IF k < Len(text) /\ text[k + 1].kind = "sentence"
           THEN <<[marker |-> text[k].page, sentence |-> k + 1]>> \o SplitFrom(text, k + 2)
           ELSE <<[marker |-> text[k].page, sentence |-> 0]>> \o SplitFrom(text, k + 1)
    ELSE <<[marker |-> 0, sentence |-> k]>> \o SplitFrom(text, k + 1)

Split(text) == SplitFrom(text, 1)

Min(S) == CHOOSE x \in S : \A y \in S : x <= y
Max(S) == CHOOSE x \in S : \A y \in S : x >= y

\* get_overlap_text(text, overlap_tokens, encoding): the text when it has no
\* more tokens than that, else its last overlap_tokens tokens
GetOverlapText(tokens, overlap_tokens) ==
  IF Len(tokens) <= overlap_tokens THEN tokens
  ELSE SubSeq(tokens, Len(tokens) - overlap_tokens + 1, Len(tokens))

\* chunk_data of the current content
ChunkData(st) ==
  [id |-> st.chunk_id, text |-> st.current_chunk, token_count |-> st.current_tokens,
   page_start |-> IF st.pages_in_chunk # {} THEN Min(st.pages_in_chunk) ELSE st.current_page,
   page_end |-> IF st.pages_in_chunk # {} THEN Max(st.pages_in_chunk) ELSE st.current_page]

LoopStart == [chunks |-> <<>>, current_chunk |-> <<>>, current_tokens |-> 0,
              chunk_id |-> 0, current_page |-> 1, pages_in_chunk |-> {}]

PagesInNextChunkKept(st) == st.pages_in_chunk \cup {st.current_page}

\* pages_in_chunk = {current_page}: the page tracking of the new chunk
PagesInNextChunk(st) == {st.current_page}

\* one turn of the loop over the pieces: a piece that starts with a marker
\* sets the page and is left (continue), whatever follows the marker in it;
\* a sentence either closes the current chunk and starts the next with the
\* overlap, or is added to the current chunk
TakePiece(st, text, piece) ==
  IF piece.marker # 0 THEN [st EXCEPT !.current_page = piece.marker]
  ELSE LET sentence == Encode(text, piece.sentence) IN
       IF st.current_tokens + Len(sentence) > ChunkSize /\ st.current_chunk # <<>>
         THEN [st EXCEPT !.chunks = Append(@, ChunkData(st)),
                 !.current_chunk = GetOverlapText(st.current_chunk, Overlap) \o sentence,
                 !.current_tokens = Len(GetOverlapText(st.current_chunk, Overlap))
                                      + Len(sentence),
                 !.pages_in_chunk = PagesInNextChunk(st),
                 !.chunk_id = @ + 1]
         ELSE [st EXCEPT !.current_chunk = @ \o sentence,
                 !.current_tokens = @ + Len(sentence),
                 !.pages_in_chunk = @ \cup {st.current_page}]

RECURSIVE Loop(_, _, _, _)
Loop(st, text, pieces, i) ==
  IF i > Len(pieces) THEN st ELSE Loop(TakePiece(st, text, pieces[i]), text, pieces, i + 1)

\* smart_chunk_document(text, chunk_size, overlap): the chunks closed in the
\* loop and the final chunk
SmartChunkDocument(text) ==
  LET st == Loop(LoopStart, text, Split(text), 1) IN
  IF st.current_chunk # <<>> THEN Append(st.chunks, ChunkData(st)) ELSE st.chunks

NoCk == [pc |-> "idle", text |-> <<>>, chunks |-> <<>>]

\* a text is chunked
ChunkDocument ==
  /\ ck.pc = "idle"
  /\ \E text \in Texts :
       ck' = [pc |-> "done", text |-> text, chunks |-> SmartChunkDocument(text)]
  /\ UNCHANGED <<redisUp, rateVars, ingestVars, searchVars, nq, ans, cache, ask>>

ForgetChunks ==
  /\ ck.pc = "done"
  /\ ck' = NoCk
  /\ UNCHANGED <<redisUp, rateVars, ingestVars, searchVars, nq, ans, cache, ask>>

(***************************************************************************)
(* POST /ask: ask_question                                                 *)
(***************************************************************************)
\* ask requests in one behaviour
MaxAsks == 2

\* the worker that handles the ask requests
AskProc == "p1"

NoAskResp == [code |-> 0, status |-> "", answer |-> <<>>, citations |-> <<>>,
              total_chunks_found |-> 0]

NoAsk == [pc |-> "idle", question |-> <<>>, document_id |-> 0, looked |-> FALSE,
          hit |-> FALSE, resp |-> NoAskResp, n |-> 0]

\* the question as the planner and the embeddings provider see it
QuestionOf(question) == <<"question", 0, Len(question)>>

\* the number of characters of a chunk's text: some texts are shorter than
\* a citation's preview, some longer
TextChars(text) == IF text[3] % 2 = 0 THEN 150 ELSE 250

\* the list enhanced_search returned, each dict with its text's length
ChunkList(result) ==
  [i \in 1..Len(result) |->
     [chunk_id |-> result[i].chunk_id, text |-> result[i].text,
      chars |-> TextChars(result[i].text), page_start |-> result[i].page_start,
      page_end |-> result[i].page_end]]

\* the completion texts looked at for ask requests: both markers and one
\* quote; no marker at all
AskResponses ==
  { [answer_marker |-> TRUE,
     sections |-> <<<<[kind |-> "quote", body |-> "q1", quoted |-> TRUE]>>>>],
    [answer_marker |-> FALSE, sections |-> <<>>] }

\* HTTPException(status_code, detail)
AskError(code) ==
  [code |-> code, status |-> "error", answer |-> <<>>, citations |-> <<>>,
   total_chunks_found |-> 0]

\* AskResponse(question, answer, citations, total_chunks_found, status = "success")
AskSuccess(answer, citations, total) ==
  [code |-> 200, status |-> "success", answer |-> answer, citations |-> citations,
   total_chunks_found |-> total]

\* get_cached_answer(question): the entry under the question's key, None
\* when there is none or the store does not answer
GetCachedAnswer(question) ==
  IF redisUp THEN cache[CacheKeyOf(question)] ELSE NoEntry

\* a request POST /ask {question, document_id} arrives
AskReceive(question, document_id) ==
  /\ ask.pc = "idle"
  /\ ask.n < MaxAsks
  /\ rpc[AskProc] = "idle"
  /\ ask' = [ask EXCEPT !.pc = "gate", !.question = question,
                        !.document_id = document_id, !.n = @ + 1]
  /\ UNCHANGED <<redisUp, rateVars, ingestVars, searchVars, nq, ans, cache, ck>>

\* check_rate_limit(ip_address): the script, then the ttl
AskGate(c) ==
  /\ ask.pc = "gate"
  /\ Eval(AskProc, c)

AskGateTtl ==
  /\ ask.pc = "gate"
  /\ ReadTtl(AskProc)

\* not allowed: HTTP 429, raised in front of the try
AskDenied ==
  /\ ask.pc = "gate"
  /\ rpc[AskProc] = "done"
  /\ routcome[AskProc] = "429"
  /\ ask' = [ask EXCEPT !.pc = "done", !.resp = AskError(429)]
  /\ UNCHANGED <<redisUp, rateVars, ingestVars, searchVars, nq, ans, cache, ck>>

\* cached_result = get_cached_answer(request.question); a hit is answered
\* from the entry, status "success"
AskLookup ==
  /\ ask.pc = "gate"
  /\ rpc[AskProc] = "done"
  /\ routcome[AskProc] = "proceed"
  /\ LET cached_result == GetCachedAnswer(ask.question) IN
     IF cached_result.present
       THEN ask' = [ask EXCEPT !.pc = "done", !.looked = TRUE, !.hit = TRUE,
                      !.resp = AskSuccess(cached_result.answer, cached_result.citations,
                                          Len(cached_result.citations))]
       ELSE ask' = [ask EXCEPT !.pc = "search", !.looked = TRUE]
  /\ UNCHANGED <<redisUp, rateVars, ingestVars, searchVars, nq, ans, cache, ck>>

\* similar_chunks = enhanced_search(question, document_id): the call
AskSearch ==
  /\ ask.pc = "search"
  /\ StartEnhanced(QuestionOf(ask.question), ask.document_id)

\* generate_answer_with_citations(request.question, similar_chunks,
\* request.document_id)
AskSynthesize ==
  /\ ask.pc = "search"
  /\ es.pc = "done"
  /\ ans.pc = "idle"
  /\ \E o \in ProviderOutcomes, r \in AskResponses :
       GenerateAnswerWithCitations(ask.question, ChunkList(es.result),
                                   ask.document_id, o, r)

\* return AskResponse(..., status = "success")
AskRespond ==
  /\ ask.pc = "search"
  /\ ans.pc = "done"
  /\ ask' = [ask EXCEPT !.pc = "done",
               !.resp = AskSuccess(ans.answer, ans.citations, Len(es.result))]
  /\ UNCHANGED <<redisUp, rateVars, ingestVars, searchVars, nq, ans, cache, ck>>

\* the response is out; the worker takes the next request
AskFinish ==
  /\ ask.pc = "done"
  /\ ask' = [NoAsk EXCEPT !.n = ask.n]
  /\ es' = NoEs
  /\ ans' = NoAns
  /\ rpc' = [rpc EXCEPT ![AskProc] = "idle"]
  /\ rscript' = [rscript EXCEPT ![AskProc] = NoScript]
  /\ rres' = [rres EXCEPT ![AskProc] = NoRes]
  /\ routcome' = [routcome EXCEPT ![AskProc] = "none"]
  /\ rfailed' = [rfailed EXCEPT ![AskProc] = FALSE]
  /\ rclient' = [rclient EXCEPT ![AskProc] = "ipA"]
  /\ UNCHANGED <<limit, redisUp, rate, winReqs, winSeen, ingestVars, tieAsc,
                 nq, cache, ck>>

TextIdle ==
  /\ nq = NoNq
  /\ ans = NoAns
  /\ cache = [k \in AnswerKeys |-> NoEntry]
  /\ ck = NoCk
  /\ ask = NoAsk

(***************************************************************************)
(* Specifications                                                          *)
(***************************************************************************)
\* ask requests at the rate gate
RateInit ==
  /\ limit \in Limits
  /\ RateIdle
  /\ IngestIdle
  /\ SearchIdle
  /\ TextIdle

RateNext ==
  \/ \E p \in Procs, c \in Clients : Eval(p, c)
  \/ \E p \in Procs : ReadTtl(p)
  \/ \E p \in Procs : Finish(p)
  \/ Tick
  \/ RedisFail
  \/ RedisRecover

SpecRate == RateInit /\ [][RateNext]_vars

\* uploads and the tasks they dispatch
IngestInit ==
  /\ limit = 1
  /\ RateIdle
  /\ IngestIdle
  /\ SearchIdle
  /\ TextIdle

IngestNext ==
  \/ \E p \in IProcs, u \in Uploads : Receive(p, u)
  \/ \E p \in IProcs : RedisGetHash(p)
  \/ \E p \in IProcs : DbById(p)
  \/ \E p \in IProcs : DbByHash(p)
  \/ \E p \in IProcs : Commit(p)
  \/ \E p \in IProcs : SetexHash(p)
  \/ \E p \in IProcs : Delay(p)
  \/ \E p \in IProcs : FinishIngest(p)
  \/ \E h \in Hashes : MarkerExpire(h)
  \/ \E d \in DocIds : MarkProcessing(d)
  \/ \E d \in DocIds : Progress20(d)
  \/ \E d \in DocIds, n \in 0..MaxChunks, raises \in BOOLEAN : ChunkStep(d, n, raises)
  \/ \E d \in DocIds, dbFails \in BOOLEAN, sessOk \in BOOLEAN : PersistStep(d, dbFails, sessOk)
  \/ \E d \in DocIds, providerFails \in BOOLEAN : EmbedStep(d, providerFails)
  \/ \E d \in DocIds, qdrantFails \in BOOLEAN : UpsertStep(d, qdrantFails)
  \/ \E d \in DocIds : MarkReady(d)
  \/ \E d \in DocIds : Progress100(d)
  \/ \E d \in DocIds : Handler(d)
  \/ \E d \in DocIds : JobRecExpire(d)
  \/ RedisFail
  \/ RedisRecover

SpecIngest == IngestInit /\ [][IngestNext]_vars

\* retrieval over an index that holds two documents
SearchInit ==
  /\ limit = 1
  /\ RateIdle
  /\ ing = [p \in IProcs |-> IdleIngest]
  /\ \E n \in [SearchDocs -> 0..IndexedChunks], zeroDoc \in {0} \cup SearchDocs :
       Indexed(n, zeroDoc)
  /\ es = NoEs
  /\ tieAsc \in BOOLEAN
  /\ TextIdle

SearchNext ==
  \/ \E q \in 0..MaxVec, k \in {1, SubTopK, FallbackTopK},
        d \in SearchDocs \cup {NoneId}, fails \in BOOLEAN : DirectSearch(q, k, d, fails)
  \/ \E q \in Questions, d \in SearchDocs : StartEnhanced(q, d)
  \/ \E o \in PlanOutcomes, n \in 0..MaxPlanned : Plan(o, n)
  \/ \E embFails \in BOOLEAN, searchFails \in BOOLEAN : SubStep(embFails, searchFails)
  \/ Aggregate
  \/ \E embFails \in BOOLEAN, searchFails \in BOOLEAN : Fallback(embFails, searchFails)
  \/ FinishSearch

SpecSearch == SearchInit /\ [][SearchNext]_vars

\* enhanced_search with a planner that returns up to MaxReturned
\* sub-questions, over an index where document 1 has ManyChunks chunks and
\* document 2 has one
CeilingInit ==
  /\ limit = 1
  /\ RateIdle
  /\ ing = [p \in IProcs |-> IdleIngest]
  /\ Indexed([d \in SearchDocs |-> IF d = 1 THEN ManyChunks ELSE 1], 0)
  /\ es = NoEs
  /\ tieAsc = TRUE
  /\ TextIdle

CeilingNext ==
  \/ \E q \in Questions, d \in SearchDocs : StartEnhanced(q, d)
  \/ \E o \in PlanOutcomes, n \in 0..MaxReturned : Plan(o, n)
  \/ \E embFails \in BOOLEAN, searchFails \in BOOLEAN : SubStep(embFails, searchFails)
  \/ Aggregate
  \/ \E embFails \in BOOLEAN, searchFails \in BOOLEAN : Fallback(embFails, searchFails)
  \/ FinishSearch

SpecCeiling == CeilingInit /\ [][CeilingNext]_vars

\* the stores as ingest_document leaves them after it committed Document 1
\* for bytes and dispatched its task
Dispatched(bytes) ==
  /\ docs = [d \in DocIds |->
       IF d = 1 THEN [present |-> TRUE, content_hash |-> Sha256(bytes), status |-> "queued"]
                ELSE NoDoc]
  /\ nextDocId = 2
  /\ hashKey = [h \in Hashes |-> IF h = Sha256(bytes) THEN 1 ELSE 0]
  /\ firstId = [h \in Hashes |-> IF h = Sha256(bytes) THEN 1 ELSE 0]
  /\ dispatched = [d \in DocIds |-> IF d = 1 THEN 1 ELSE 0]
  /\ job = [d \in DocIds |-> IF d = 1 THEN [NoJob EXCEPT !.pc = "queued"] ELSE NoJob]
  /\ jobrec = [d \in DocIds |-> NoRec]
  /\ lastProgress = [d \in DocIds |-> 0]
  /\ chunks = {}
  /\ nextChunkId = 1
  /\ points = {}

\* one dispatched process_document task, run by a worker that keeps taking
\* steps; the key-value store may go down and come back at any time
JobInit ==
  /\ limit = 1
  /\ RateIdle
  /\ ing = [p \in IProcs |-> IdleIngest]
  /\ Dispatched("pdfA")
  /\ SearchIdle
  /\ TextIdle

JobStep ==
  \/ \E d \in DocIds : MarkProcessing(d)
  \/ \E d \in DocIds : Progress20(d)
  \/ \E d \in DocIds, n \in 0..MaxChunks, raises \in BOOLEAN : ChunkStep(d, n, raises)
  \/ \E d \in DocIds, dbFails \in BOOLEAN, sessOk \in BOOLEAN : PersistStep(d, dbFails, sessOk)
  \/ \E d \in DocIds, providerFails \in BOOLEAN : EmbedStep(d, providerFails)
  \/ \E d \in DocIds, qdrantFails \in BOOLEAN : UpsertStep(d, qdrantFails)
  \/ \E d \in DocIds : MarkReady(d)
  \/ \E d \in DocIds : Progress100(d)
  \/ \E d \in DocIds : Handler(d)

JobNext ==
  \/ JobStep
  \/ \E d \in DocIds : JobRecExpire(d)
  \/ RedisFail
  \/ RedisRecover

SpecJob == JobInit /\ [][JobNext]_vars /\ WF_vars(JobStep)

\* ask requests, one after another, over an index where document 1 has
\* IndexedChunks chunks and document 2 has one; the embeddings provider
\* answers, the index may fail
AskInit ==
  /\ limit = 1
  /\ RateIdle
  /\ ing = [p \in IProcs |-> IdleIngest]
  /\ Indexed([d \in SearchDocs |-> IF d = 1 THEN IndexedChunks ELSE 1], 0)
  /\ es = NoEs
  /\ tieAsc = TRUE
  /\ TextIdle

AskNext ==
  \/ \E q \in AnswerQuestions, d \in SearchDocs : AskReceive(q, d)
  \/ \E c \in Clients : AskGate(c)
  \/ AskGateTtl
  \/ AskDenied
  \/ AskLookup
  \/ AskSearch
  \/ \E o \in PlanOutcomes, n \in 0..MaxPlanned : Plan(o, n)
  \/ \E searchFails \in BOOLEAN : SubStep(FALSE, searchFails)
  \/ Aggregate
  \/ \E searchFails \in BOOLEAN : Fallback(FALSE, searchFails)
  \/ AskSynthesize
  \/ AskRespond
  \/ AskFinish
  \/ RedisFail
  \/ RedisRecover

SpecAsk == AskInit /\ [][AskNext]_vars

\* questions and their cache keys
NormalizeInit ==
  /\ limit = 1
  /\ RateIdle
  /\ IngestIdle
  /\ SearchIdle
  /\ TextIdle

NormalizeNext ==
  \/ \E q \in QuestionStrings : Lookup(q)
  \/ \E rel \in Relations : LookupVariant(rel)
  \/ ForgetQuestions

SpecNormalize == NormalizeInit /\ [][NormalizeNext]_vars

\* one call of generate_answer_with_citations
AnswerInit ==
  /\ limit = 1
  /\ RateIdle
  /\ IngestIdle
  /\ SearchIdle
  /\ TextIdle

AnswerNext ==
  \/ Synthesize
  \/ \E k \in AnswerKeys : CacheExpire(k)
  \/ RedisFail
  \/ RedisRecover

SpecAnswer == AnswerInit /\ [][AnswerNext]_vars

\* texts and their chunks
ChunkInit ==
  /\ limit = 1
  /\ RateIdle
  /\ IngestIdle
  /\ SearchIdle
  /\ TextIdle

ChunkNext ==
  \/ ChunkDocument
  \/ ForgetChunks

SpecChunk == ChunkInit /\ [][ChunkNext]_vars

(***************************************************************************)
(* Claims about the rate gate                                              *)
(***************************************************************************)
NoDuplicates(seq) ==
  \A i, j \in 1..Len(seq) : i # j => seq[i] # seq[j]

\* C1: within one window (from the request that seeds the counter until the
\* key expires) the store's script allows exactly the first `limit` requests
\* of a client and denies every later one, and so does the dict that
\* check_rate_limit returns and the gate of ask_question; a request that finds
\* no key (first ever, or after the window's time-to-live ran out) re-seeds
\* the counter to limit - 1 and is allowed.
C1_WindowBoundary ==
  /\ \A p \in Procs :
       rscript[p].ran =>
         /\ (rscript[p].allowed = 1) <=> (rscript[p].seq <= limit)
         /\ rscript[p].seeded <=> (rscript[p].seq = 1)
         /\ rscript[p].seeded => rscript[p].remaining = limit - 1
  /\ \A p \in Procs :
       (rpc[p] = "done" /\ ~rfailed[p]) =>
         /\ rres[p].allowed <=> (rscript[p].seq <= limit)
         /\ (routcome[p] = "429") <=> (rscript[p].seq > limit)
  /\ \A c \in Clients :
       /\ Len(winSeen[c]) = (IF winReqs[c] <= limit THEN winReqs[c] ELSE limit)
       /\ rate[c].present <=> (winReqs[c] > 0)

\* C1 witness: a client's request number limit + 1 was denied, the window
\* ran out, and the next request of the same client seeded a new window and
\* was allowed.
C1_Witness ==
  \E p, q \in Procs :
    /\ p # q /\ rclient[p] = rclient[q]
    /\ rpc[p] = "done" /\ ~rfailed[p] /\ rscript[p].seq = limit + 1
    /\ ~rres[p].allowed /\ routcome[p] = "429"
    /\ rpc[q] = "done" /\ ~rfailed[q] /\ rscript[q].seeded
    /\ rres[q].allowed /\ routcome[q] = "proceed"
    /\ winReqs[rclient[q]] = 1

\* C2: under every interleaving of the requests of one client the number of
\* requests the script allowed in the current window never exceeds the limit,
\* and no two of them were given the same remaining count.
C2_AtomicCheckAndDecrement ==
  \A c \in Clients :
    /\ Len(winSeen[c]) <= limit
    /\ NoDuplicates(winSeen[c])
    /\ \A i \in 1..Len(winSeen[c]) : winSeen[c][i] = limit - i

\* C2 witness: two requests of one client are in flight at once (both have
\* run the script, neither has returned); one took the last unit of the
\* window, the other was denied.
C2_Witness ==
  \E p, q \in Procs :
    /\ p # q /\ rclient[p] = rclient[q]
    /\ rpc[p] = "ttl" /\ rpc[q] = "ttl"
    /\ rscript[p].allowed = 1 /\ rscript[p].remaining = 0
    /\ rscript[q].allowed = 0
    /\ limit >= 2

\* C3: a request whose rate check hit a store failure (at the script call or
\* at the ttl call) gets allowed = true from check_rate_limit, and
\* ask_question goes on instead of answering 429.
C3_FailOpen ==
  \A p \in Procs :
    (rpc[p] = "done" /\ rfailed[p]) =>
      /\ rres[p].allowed
      /\ rres[p].remaining = limit - 1
      /\ routcome[p] = "proceed"

\* C3 witness: the store failed after the script had denied the request, and
\* the request went on.
C3_Witness ==
  \E p \in Procs :
    /\ rpc[p] = "done" /\ rfailed[p]
    /\ rscript[p].ran /\ rscript[p].allowed = 0
    /\ routcome[p] = "proceed"

(***************************************************************************)
(* Claims about ingestion                                                  *)
(***************************************************************************)
Storable(u) ==
  u.content_type = "application/pdf" /\ u.size <= MaxFileSizeMB /\ u.readable

C5_ConcurrentIngestResolves ==
  /\ \A p \in IProcs :
       (ing[p].pc = "done" /\ Storable(ing[p].up) /\ ~ing[p].failed) =>
         ing[p].resp.kind = "ok"
  /\ \A p, q \in IProcs :
       ( /\ ing[p].pc = "done" /\ ing[q].pc = "done"
         /\ ing[p].resp.kind = "ok" /\ ing[q].resp.kind = "ok"
         /\ ing[p].content_hash = ing[q].content_hash ) =>
         ing[p].resp.document_id = ing[q].resp.document_id

\* C6: a Document whose status is ready has exactly one point in the vector
\* index for each of its Chunk rows.
C6_ReadyHasVectors ==
  \A d \in DocIds :
    (docs[d].present /\ docs[d].status = "ready") =>
      \A c \in chunks :
        c.document_id = d => Cardinality({pt \in points : pt.id = c.id}) = 1

\* C7 as claimed: the progress percentage written to a document's job record
\* never goes down, on any path.
C7_ProgressMonotonic ==
  [][\A d \in DocIds : lastProgress'[d] >= lastProgress[d]]_vars

\* C7 as amended: the progress percentage written to a document's job record
\* only goes down in the one write of the failure handler, which writes
\* status failed with progress 0 and ends the task; every write with status
\* processing or ready is at least the one before it.
C7_ProgressMonotonicUntilFailed ==
  [][\A d \in DocIds :
       /\ lastProgress'[d] < lastProgress[d] =>
            /\ jobrec'[d] = [present |-> TRUE, status |-> "failed", progress |-> 0]
            /\ job[d].pc = "handler" /\ job'[d].pc = "done"
       /\ (jobrec'[d] # jobrec[d] /\ jobrec'[d].present
             /\ jobrec'[d].status \in {"processing", "ready"}) =>
            /\ jobrec'[d].progress = lastProgress'[d]
            /\ lastProgress'[d] > lastProgress[d]
     ]_vars

\* C7 witness: a task failed after progress 40 had been written, and the
\* handler wrote failed with progress 0.
C7_Witness ==
  \E d \in DocIds :
    /\ job[d].pc = "done" /\ job[d].failedStep = "persist"
    /\ jobrec[d].present /\ jobrec[d].status = "failed" /\ jobrec[d].progress = 0
    /\ lastProgress[d] = 0

\* C8: a task in which chunking, chunk persistence, embedding or the
\* vector-index write failed ends with the Document failed and with
\* get_job_status reporting failed.
C8_FailedStepMarksFailed ==
  \A d \in DocIds :
    (job[d].pc = "done"
       /\ job[d].failedStep \in {"chunk", "persist", "embed", "upsert"}) =>
      /\ docs[d].status = "failed"
      /\ redisUp => GetJobStatus(d).status = "failed"

(***************************************************************************)
(* Claims about retrieval                                                  *)
(***************************************************************************)
OwnerOf(chunk_id) == (CHOOSE c \in chunks : c.id = chunk_id).document_id

\* C9: a call of search_similar_chunks with document_id = A returns no
\* candidate whose chunk belongs to another document, whatever the index
\* holds, its points being tagged with their document at ingestion.
C9_NoCrossDocumentCandidate ==
  \A k \in 1..Len(es.calls) :
    LET c == es.calls[k] IN
    c.document_id # NoneId =>
      \A j \in 1..Len(c.result) :
        /\ \E row \in chunks : row.id = c.result[j].chunk_id
        /\ OwnerOf(c.result[j].chunk_id) = c.document_id

\* a search scoped to one document has returned candidates while the index
\* holds points of another document, one of them at least as close
C9_Witness ==
  /\ es.pc = "done"
  /\ es.kind = "search"
  /\ Len(es.calls) = 1
  /\ es.calls[1].document_id # NoneId
  /\ Len(es.calls[1].result) > 0
  /\ Len(es.calls[1].result) < es.calls[1].top_k
  /\ \E pt \in points :
       /\ pt.document_id # es.calls[1].document_id
       /\ \A j \in 1..Len(es.calls[1].result) :
            Similarity(es.calls[1].query, pt.vector) >=
              es.calls[1].result[j].similarity_score

\* the planner's answers that are a failure of planning: everything but a
\* list of strings
PlanFailures == PlanOutcomes \ {"ok"}

\* the results a plain search of the question, top_k = 8, scoped to the
\* document, can give
PlainSearchResults(question, document_id) ==
  {SearchSimilarChunks(GenerateEmbeddings(<<question>>, embFails)[1], FallbackTopK,
                       document_id, searchFails) :
     embFails \in BOOLEAN, searchFails \in BOOLEAN}

\* C10: when the planning of sub-questions fails (provider error, no
\* function call, malformed structured output), enhanced_search returns
\* exactly what the plain search of the original question, top_k = 8, scoped
\* to document_id, returns, and does not raise.
C10_PlanningFailureFallsBack ==
  (es.pc = "done" /\ es.kind = "enhanced" /\ es.planned \in PlanFailures) =>
    /\ ~es.raised
    /\ es.result \in PlainSearchResults(es.question, es.document_id)

\* the planner's arguments did not parse, and the fallback found candidates
C10_Witness ==
  /\ es.pc = "done"
  /\ es.kind = "enhanced"
  /\ es.planned = "bad_json"
  /\ Len(es.result) > 0

(***************************************************************************)
(* Claims about answers and questions                                      *)
(***************************************************************************)
\* the quotes of the quote lines of a section, in order
RECURSIVE QuoteLines(_)
QuoteLines(lines) ==
  IF lines = <<>> THEN <<>>
  ELSE (IF lines[1].kind = "quote" THEN <<lines[1].body>> ELSE <<>>)
       \o QuoteLines(Tail(lines))

\* the quotes of all quote lines of a response
AllQuoteLines(response) ==
  IF Len(response.sections) = 0 THEN <<>>
  ELSE IF Len(response.sections) = 1 THEN QuoteLines(response.sections[1])
  ELSE QuoteLines(response.sections[1]) \o QuoteLines(response.sections[2])

\* n citations in candidate order, the i-th with the i-th of the quotes or,
\* past the last quote, with an empty exact_text
CitationsCarry(quotes) ==
  /\ ~ans.raised
  /\ Len(ans.citations) = Len(ans.chunks)
  /\ \A i \in 1..Len(ans.citations) :
       /\ ans.citations[i].chunk_id = ans.chunks[i].chunk_id
       /\ ans.citations[i].page_start = ans.chunks[i].page_start
       /\ ans.citations[i].page_end = ans.chunks[i].page_end
       /\ ans.citations[i].exact_text = IF i <= Len(quotes) THEN quotes[i] ELSE ""

\* C11: for n candidates and a response with m quote lines the call returns
\* n citations in candidate order, citation i with the i-th quote for
\* i < min(n, m) and with an empty exact_text for i >= m; further quotes are
\* dropped and nothing raises.
C11_QuotesByPosition ==
  (ans.pc = "done" /\ ans.outcome = "text") =>
    CitationsCarry(AllQuoteLines(ans.response))

\* C11 as the parser has it: the quote lines are those of a response that
\* holds both markers, between the first "CITATIONS:" and the next
C11_QuotesByPositionInFormat ==
  (ans.pc = "done" /\ ans.outcome = "text") =>
    CitationsCarry(IF ans.response.answer_marker /\ Len(ans.response.sections) > 0
                     THEN QuoteLines(ans.response.sections[1]) ELSE <<>>)

\* three candidates and a two-section response with two quote lines: the
\* third citation has no quote
C11_Witness ==
  /\ ans.pc = "done"
  /\ ans.outcome = "text"
  /\ Len(ans.chunks) = 3
  /\ ans.response.answer_marker
  /\ Len(ans.response.sections) = 1
  /\ Len(QuoteLines(ans.response.sections[1])) = 2
  /\ ans.citations[1].exact_text # ""
  /\ ans.citations[2].exact_text # ""
  /\ ans.citations[3].exact_text = ""

\* C12: questions that differ only in letter case, in whitespace at the
\* ends, and in a '?' or '.' directly behind the last word have the same
\* normalized form and the same cache key.
C12_SameKeyUpToCaseSpaceAndTail ==
  (nq.pc = "two" /\ nq.rel \in {"case", "outer_space", "tail"}) =>
    /\ nq.n1 = nq.n2
    /\ nq.key1 = nq.key2

\* "a" was asked first and "A?" second (or the like)
C12_Witness ==
  /\ nq.pc = "two"
  /\ nq.rel = "tail"
  /\ nq.n1 # <<>>
  /\ \E i \in 1..Len(nq.q2) : nq.q2[i] = "?"
  /\ \A i \in 1..Len(nq.q1) : nq.q1[i] # "?"
  /\ \E i \in 1..Len(nq.q1) : nq.q1[i] = "A"
  /\ nq.key1 = nq.key2

NoSpareWhitespace(str) ==
  /\ str # <<>> => (str[1] \notin Whitespace /\ str[Len(str)] \notin Whitespace)
  /\ \A i \in 1..(Len(str) - 1) : ~(str[i] \in Whitespace /\ str[i + 1] \in Whitespace)

\* C13: one of the stripped punctuation characters more or less, at any
\* position of the question, gives the same cache key; normalize_question
\* is idempotent, and its result has no whitespace at the ends and no
\* repeated whitespace.
C13_PunctuationNeverChangesKey ==
  /\ (nq.pc = "two" /\ nq.rel = "punct") => nq.key1 = nq.key2
  /\ nq.pc \in {"one", "two"} =>
       /\ NormalizeQuestion(nq.n1) = nq.n1
       /\ NoSpareWhitespace(nq.n1)

(***************************************************************************)
(* Claims about chunks                                                     *)
(***************************************************************************)
\* the pages of the markers of a text, in order
RECURSIVE MarkerPages(_)
MarkerPages(text) ==
  IF text = <<>> THEN <<>>
  ELSE (IF text[1].kind = "marker" THEN <<text[1].page>> ELSE <<>>)
       \o MarkerPages(Tail(text))

NonDecreasing(seq) == \A i \in 1..(Len(seq) - 1) : seq[i] <= seq[i + 1]

\* C14: every chunk has page_start <= page_end; with non-decreasing page
\* markers page_start and page_end do not decrease from a chunk to the next,
\* and the next chunk's page_start is not below the chunk's page_end.
C14_PageRangesOrdered ==
  ck.pc = "done" =>
    /\ \A k \in 1..Len(ck.chunks) : ck.chunks[k].page_start <= ck.chunks[k].page_end
    /\ NonDecreasing(MarkerPages(ck.text)) =>
         \A k \in 1..(Len(ck.chunks) - 1) :
           /\ ck.chunks[k].page_start <= ck.chunks[k + 1].page_start
           /\ ck.chunks[k].page_end <= ck.chunks[k + 1].page_end
           /\ ck.chunks[k].page_end <= ck.chunks[k + 1].page_start

\* a chunk over two pages is followed by a chunk on the second page
C14_Witness ==
  /\ ck.pc = "done"
  /\ NonDecreasing(MarkerPages(ck.text))
  /\ Len(ck.chunks) >= 2
  /\ ck.chunks[1].page_start < ck.chunks[1].page_end
  /\ ck.chunks[2].page_start = ck.chunks[1].page_end

\* whether the tokens part stand together, in order, somewhere in whole
Contains(whole, part) ==
  \E off \in 0..(Len(whole) - Len(part)) :
    \A j \in 1..Len(part) : whole[off + j] = part[j]

\* tokens in reading order: by sentence, then by position in the sentence
Precedes(a, b) == a[1] < b[1] \/ (a[1] = b[1] /\ a[2] < b[2])

\* C15: every sentence of the text, the one directly behind a page marker
\* included, stands whole in at least one chunk, the chunks keep the
\* reading order, and no sentence is dropped.
C15_EverySentenceInAChunk ==
  ck.pc = "done" =>
    /\ \A k \in 1..Len(ck.text) :
         ck.text[k].kind = "sentence" =>
           \E c \in 1..Len(ck.chunks) : Contains(ck.chunks[c].text, Encode(ck.text, k))
    /\ \A c \in 1..Len(ck.chunks) :
         \A i \in 1..(Len(ck.chunks[c].text) - 1) :
           Precedes(ck.chunks[c].text[i], ck.chunks[c].text[i + 1])

\* the sentences of the text that stand whole in a chunk
WholeSentences(c) ==
  {k \in 1..Len(ck.text) :
     ck.text[k].kind = "sentence" /\ Contains(ck.chunks[c].text, Encode(ck.text, k))}

\* C16: a sentence of more than chunk_size tokens is a chunk of its own,
\* with no other sentence's text in it, as the first sentence of the text
\* and behind a closed chunk alike; a chunk with two or more whole sentences
\* has a token_count of at most chunk_size.
C16_LongSentenceStandsAlone ==
  ck.pc = "done" =>
    \A c \in 1..Len(ck.chunks) :
      /\ \A k \in WholeSentences(c) :
           ck.text[k].tokens > ChunkSize => ck.chunks[c].text = Encode(ck.text, k)
      /\ Cardinality(WholeSentences(c)) >= 2 => ck.chunks[c].token_count <= ChunkSize

(***************************************************************************)
(* Claims about embeddings                                                 *)
(***************************************************************************)
\* C17: generate_embeddings does not raise and returns one vector for each
\* text, in the order of the texts; when the provider call fails, an
\* all-zero vector for each text. Stated of the call in process_document:
\* with the store up the task goes on to the upsert, never to the handler.
C17_OneVectorPerText ==
  [][\A d \in DocIds :
       (job[d].pc = "embed" /\ job'[d] # job[d] /\ redisUp) =>
         /\ job'[d].pc = "upsert"
         /\ Len(job'[d].embeddings) = job[d].n
         /\ IF job'[d].failedStep = "embed"
              THEN \A i \in 1..job[d].n : job'[d].embeddings[i] = ZeroVector
              ELSE \A i \in 1..job[d].n :
                     job'[d].embeddings[i] = EmbedText(ChunkText(d, i - 1))]_vars

\* the provider failed for a document of two chunks: two all-zero vectors
C17_Witness ==
  \E d \in DocIds :
    /\ job[d].pc = "upsert"
    /\ job[d].failedStep = "embed"
    /\ job[d].n = 2
    /\ job[d].embeddings = <<ZeroVector, ZeroVector>>

(***************************************************************************)
(* Claims about retrieval, continued                                       *)
(***************************************************************************)
\* the points a search of the index may return
Matching(c) == {pt \in points : c.document_id = NoneId \/ pt.document_id = c.document_id}

\* C18: search_similar_chunks returns at most top_k candidates, the closest
\* of the index in its descending order of similarity, each with the text,
\* the page range and the token count of its Chunk row; when the search of
\* the index or the join fails it returns the empty list, and it does not
\* raise.
C18_TopKJoinedOrEmpty ==
  /\ ~es.raised
  /\ \A k \in 1..Len(es.calls) :
       LET c == es.calls[k] IN
       IF c.failed THEN c.result = <<>>
       ELSE /\ Len(c.result) <= c.top_k
            /\ Len(c.result) = IF Cardinality(Matching(c)) <= c.top_k
                                 THEN Cardinality(Matching(c)) ELSE c.top_k
            /\ \A j \in 1..(Len(c.result) - 1) :
                 c.result[j].similarity_score >= c.result[j + 1].similarity_score
            /\ \A j \in 1..Len(c.result) :
                 /\ \E pt \in Matching(c) :
                      /\ pt.id = c.result[j].chunk_id
                      /\ c.result[j].similarity_score = Similarity(c.query, pt.vector)
                 /\ \E row \in chunks :
                      /\ row.id = c.result[j].chunk_id
                      /\ row.text = c.result[j].text
                      /\ row.page_start = c.result[j].page_start
                      /\ row.page_end = c.result[j].page_end
                      /\ row.token_count = c.result[j].token_count
                 /\ \A pt \in Matching(c) :
                      (\A i \in 1..Len(c.result) : c.result[i].chunk_id # pt.id) =>
                        Similarity(c.query, pt.vector) <= c.result[j].similarity_score

\* a search found more matching points than top_k = 3 and returned the three
\* closest, not all equally close, each with its row's page range
C18_Witness ==
  /\ es.pc = "done"
  /\ es.kind = "search"
  /\ LET c == es.calls[1] IN
     /\ ~c.failed
     /\ c.top_k = SubTopK
     /\ Cardinality(Matching(c)) > c.top_k
     /\ Len(c.result) = c.top_k
     /\ c.result[1].similarity_score > c.result[c.top_k].similarity_score
     /\ c.result[1].page_end >= c.result[1].page_start

\* the calls of search_similar_chunks made for sub-questions, and for the
\* simple search over the question
SubCalls == {k \in 1..Len(es.calls) : es.calls[k].top_k = SubTopK}
FallbackCalls == {k \in 1..Len(es.calls) : es.calls[k].top_k = FallbackTopK}

\* C19: however many sub-questions the planner returns, enhanced_search
\* embeds and searches at most the first 6 of them, in the order returned:
\* the k-th retrieval is for the k-th returned sub-question, there are at
\* most 6 of them, and at most one retrieval for the question itself follows.
C19_AtMostSixSubQuestions ==
  es.kind = "enhanced" =>
    /\ Cardinality(SubCalls) <= MaxSubQuestions
    /\ Cardinality(SubCalls) <= Len(es.returned)
    /\ Cardinality(FallbackCalls) <= 1
    /\ Len(es.calls) = Cardinality(SubCalls) + Cardinality(FallbackCalls)
    /\ \A k \in SubCalls :
         /\ k <= Cardinality(SubCalls)
         /\ es.calls[k].document_id = es.document_id
         /\ es.calls[k].query \in {EmbedText(es.returned[k]), ZeroVector}
    /\ es.pc = "done" /\ FallbackCalls = {} =>
         Cardinality(SubCalls) = Min({Len(es.returned), MaxSubQuestions})

\* the planner returned more than 6 sub-questions; six were searched, too
\* few chunks came back, and the question itself was searched once
C19_Witness ==
  /\ es.pc = "done"
  /\ es.kind = "enhanced"
  /\ Len(es.returned) > MaxSubQuestions
  /\ Cardinality(SubCalls) = MaxSubQuestions
  /\ Cardinality(FallbackCalls) = 1
  /\ \E k \in SubCalls : es.calls[k].query # ZeroVector

\* the result lists of the sub-question retrievals 1..k, one after another
RECURSIVE ConcatResults(_)
ConcatResults(k) ==
  IF k = 0 THEN <<>>
  ELSE ConcatResults(k - 1) \o
       (IF es.calls[k].top_k = SubTopK THEN es.calls[k].result ELSE <<>>)

\* the positions of a list that hold the first occurrence of their chunk id
FirstOccurrences(cs) ==
  {i \in 1..Len(cs) : \A j \in 1..(i - 1) : cs[j].chunk_id # cs[i].chunk_id}

\* the place of first occurrence i when first occurrences are put in
\* descending order of score, equal scores in their order in the list
PlaceOf(cs, i) ==
  1 + Cardinality({j \in FirstOccurrences(cs) :
                     \/ cs[j].similarity_score > cs[i].similarity_score
                     \/ /\ cs[j].similarity_score = cs[i].similarity_score
                        /\ j < i})

Reference(cs) ==
  [p \in 1..Min({Cardinality(FirstOccurrences(cs)), ResultTopK}) |->
     cs[CHOOSE i \in FirstOccurrences(cs) : PlaceOf(cs, i) = p]]

\* C20: when planning succeeded and the sub-question retrievals found at
\* least 3 different chunks, the result of enhanced_search is the reference:
\* the per-sub-question lists one after another, the first occurrence of
\* each chunk id with that occurrence's score, by descending score, the
\* first 8; no chunk id is in the result twice.
C20_ResultIsReference ==
  (/\ es.pc = "done"
   /\ es.kind = "enhanced"
   /\ es.planned = "ok"
   /\ Cardinality(FirstOccurrences(ConcatResults(Len(es.calls)))) >= MinUnique) =>
    /\ es.result = Reference(ConcatResults(Len(es.calls)))
    /\ \A a, b \in 1..Len(es.result) :
         es.result[a].chunk_id = es.result[b].chunk_id => a = b

\* nine different chunks came back, one of them first with a lower score and
\* later with a higher one; the result holds eight, that chunk with its
\* first score
C20_Witness ==
  /\ es.pc = "done"
  /\ es.kind = "enhanced"
  /\ es.planned = "ok"
  /\ LET cs == ConcatResults(Len(es.calls)) IN
     /\ Cardinality(FirstOccurrences(cs)) > ResultTopK
     /\ Len(es.result) = ResultTopK
     /\ es.result[1].similarity_score > es.result[ResultTopK].similarity_score
     /\ \E i \in FirstOccurrences(cs), j \in 1..Len(cs), p \in 1..Len(es.result) :
          /\ cs[j].chunk_id = cs[i].chunk_id
          /\ cs[j].similarity_score > cs[i].similarity_score
          /\ es.result[p] = cs[i]

\* the planner's answers after which the loop over sub-questions runs
LoopOutcomes == {"ok", "missing_list", "string_list"}

\* C21: when the sub-question retrievals found fewer than 3 different chunks
\* (an empty list of sub-questions included), enhanced_search drops them and
\* returns what one retrieval over the original question, top_k = 8, scoped
\* to the document, gives.
C21_TooFewFallsBack ==
  (/\ es.pc = "done"
   /\ es.kind = "enhanced"
   /\ es.planned \in LoopOutcomes
   /\ Cardinality(FirstOccurrences(ConcatResults(Len(es.calls)))) < MinUnique) =>
    /\ Cardinality(FallbackCalls) = 1
    /\ LET c == es.calls[Len(es.calls)] IN
       /\ c.top_k = FallbackTopK
       /\ c.document_id = es.document_id
       /\ c.query \in {EmbedText(es.question), ZeroVector}
       /\ es.result = c.result
    /\ es.result \in PlainSearchResults(es.question, es.document_id)

\* two sub-questions found the same two chunks; the retrieval over the
\* question was run and its candidates returned, in another order than the
\* sub-questions had them
C21_Witness ==
  /\ es.pc = "done"
  /\ es.kind = "enhanced"
  /\ es.planned = "ok"
  /\ Cardinality(SubCalls) = 2
  /\ Cardinality(FirstOccurrences(ConcatResults(Len(es.calls)))) = 2
  /\ Cardinality(FallbackCalls) = 1
  /\ Len(es.result) = 2
  /\ es.result # es.calls[1].result

\* C22: when the completion provider's call fails,
\* generate_answer_with_citations does not raise: it returns an answer that
\* describes the error and one citation for each candidate, in the order of
\* the candidates, with an empty exact_text and the candidate's page range
\* and chunk id.
C22_ProviderFailureGivesQuotelessCitations ==
  (ans.pc = "done" /\ ans.outcome \in {"raises", "no_content"}) =>
    /\ ~ans.raised
    /\ ans.answer = <<"Error generating answer: ", ans.outcome>>
    /\ Len(ans.citations) = Len(ans.chunks)
    /\ \A i \in 1..Len(ans.chunks) :
         /\ ans.citations[i].exact_text = ""
         /\ ans.citations[i].page_start = ans.chunks[i].page_start
         /\ ans.citations[i].page_end = ans.chunks[i].page_end
         /\ ans.citations[i].chunk_id = ans.chunks[i].chunk_id

\* the provider raised for a call with two different candidates
C22_Witness ==
  /\ ans.pc = "done"
  /\ ans.outcome = "raises"
  /\ Len(ans.chunks) >= 2
  /\ ans.chunks[1].chunk_id # ans.chunks[2].chunk_id
  /\ ans.citations[2].chunk_id = ans.chunks[2].chunk_id
  /\ ans.citations[1].exact_text = ""

(***************************************************************************)
(* Claims about POST /ask                                                  *)
(***************************************************************************)
\* C23: a failed question is never reported as a success: when the
\* synthesis of the answer failed (the completion provider did not answer),
\* ask returns an explicit error and not a response with status "success";
\* what the caller can see of a failure is the 429 of the gate or this error.
C23_FailureIsNotSuccess ==
  ask.pc = "done" =>
    /\ (ans.pc = "done" /\ ans.outcome # "text") =>
         /\ ask.resp.status # "success"
         /\ ask.resp.code # 200
    /\ ask.resp.status # "success" => ask.resp.code \in {429, 500}

\* one step of an ask request keeps the order of the route: the cache is
\* looked up only after the gate has allowed the request; a denied request
\* has looked up nothing; a hit has called neither the planner, nor the
\* embeddings, the index or the completion provider; on a miss the planner
\* answers before any retrieval, retrievals come before the synthesis, the
\* cache is written with the synthesis and before the response, and the
\* response comes last
AskOrderStep ==
  /\ (~ask.looked /\ ask'.looked) =>
       /\ rpc[AskProc] = "done"
       /\ rres[AskProc].allowed
  /\ ask'.resp.code = 429 =>
       /\ ~ask'.looked
       /\ es' = NoEs
       /\ ans' = NoAns
       /\ cache' = cache
  /\ ask'.hit => (es' = NoEs /\ ans' = NoAns /\ cache' = cache)
  /\ (es = NoEs /\ es' # NoEs) => (ask.looked /\ ~ask.hit)
  /\ (es.planned = "none" /\ es'.planned # "none") => es.calls = <<>>
  /\ Len(es'.calls) > Len(es.calls) =>
       /\ es.planned # "none"
       /\ ans.pc = "idle"
       /\ ask.resp = NoAskResp
  /\ (ans.pc = "idle" /\ ans'.pc = "done") =>
       /\ es.pc = "done"
       /\ es' = es
       /\ ans'.chunks = ChunkList(es.result)
       /\ ask.resp = NoAskResp
  /\ cache' # cache =>
       /\ ans.pc = "idle"
       /\ ans'.pc = "done"
       /\ ans'.outcome = "text"
       /\ ask.resp = NoAskResp
  /\ (ask.resp = NoAskResp /\ ask'.resp.code = 200 /\ ~ask'.hit) =>
       /\ ans.pc = "done"
       /\ es' = es
       /\ cache' = cache

\* a hit is answered after the gate's script took one unit of the client's
\* quota
HitConsumesQuota ==
  (~ask.hit /\ ask'.hit) =>
    /\ rscript[AskProc].ran
    /\ rscript[AskProc].allowed = 1

C27_CitationsOfTheAskedDocument ==
  (ask.pc = "done" /\ ask.resp.status = "success") =>
    \A i \in 1..Len(ask.resp.citations) :
      OwnerOf(ask.resp.citations[i].chunk_id) = ask.document_id

(***************************************************************************)
(* Claims about process_document                                           *)
(***************************************************************************)
\* the moves the lifecycle status of a Document may make
StatusMoves ==
  {<<"queued", "processing">>, <<"processing", "ready">>, <<"processing", "failed">>}

\* a step of the task keeps the order chunk, persist, embed, index, ready
StepsInOrder(d) ==
  /\ job'[d].n # job[d].n => job[d].pc = "chunk"
  /\ (\E c \in chunks' \ chunks : c.document_id = d) =>
       /\ job[d].pc = "persist"
       /\ job[d].chunk_ids = <<>>
       /\ job[d].embeddings = <<>>
  /\ job'[d].embeddings # job[d].embeddings =>
       /\ job[d].pc = "embed"
       /\ Len(job[d].chunk_ids) = job[d].n
       /\ \A i \in 1..job[d].n : \E c \in chunks :
            c.id = job[d].chunk_ids[i] /\ c.document_id = d /\ c.ord = i - 1
  /\ (\E pt \in points' \ points : pt.document_id = d) =>
       /\ job[d].pc = "upsert"
       /\ Len(job[d].embeddings) = job[d].n
  /\ (docs[d].status # "ready" /\ docs'[d].status = "ready") =>
       /\ job[d].pc = "ready"
       /\ Len(job[d].chunk_ids) = job[d].n
       /\ Len(job[d].embeddings) = job[d].n

\* the points a step adds for document d: the i-th vector under the id of
\* the i-th persisted chunk
VectorsUnderChunkIds(d) ==
  \A pt \in points' \ points :
    pt.document_id = d =>
      \E i \in 1..job[d].n :
        /\ pt.id = job[d].chunk_ids[i]
        /\ pt.vector = job[d].embeddings[i]
        /\ pt.vector \in {EmbedText(ChunkText(d, i - 1)), ZeroVector}
        /\ \E c \in chunks : c.id = pt.id /\ c.document_id = d /\ c.ord = i - 1

\* C25: within one process_document job the steps run in the order chunk,
\* persist chunks, embed, write the vector index, and the Document is marked
\* ready only after all four; the status moves only queued -> processing ->
\* ready or failed; each step uses the output of the step before (the i-th
\* vector is stored under the id of the i-th persisted chunk).
C25_StepsInOrder ==
  [][\A d \in DocIds :
       /\ StepsInOrder(d)
       /\ VectorsUnderChunkIds(d)
       /\ (docs[d].present /\ docs'[d].status # docs[d].status) =>
            <<docs[d].status, docs'[d].status>> \in StatusMoves]_vars

\* C26: every dispatched process_document job for an existing Document
\* eventually ends with the Document ready or failed, whatever fails on the
\* way and with a worker that keeps running; no run ends with the Document
\* left queued or processing.
C26_JobEndsReadyOrFailed ==
  \A d \in DocIds :
    (job[d].pc = "queued" /\ docs[d].present) ~>
      (job[d].pc = "done" /\ docs[d].status \in {"ready", "failed"})

\* C28: whenever a Document's status is ready, get_job_status reports
\* status ready and progress 100 for it, while the job record is in the
\* key-value store and after the record has expired (the store answering).
C28_ReadyReportsHundred ==
  \A d \in DocIds :
    (docs[d].present /\ docs[d].status = "ready" /\ redisUp) =>
      /\ GetJobStatus(d).code = 200
      /\ GetJobStatus(d).status = "ready"
      /\ GetJobStatus(d).progress = 100

(***************************************************************************)
(* Claims about the rate gate, continued                                   *)
(***************************************************************************)
\* the stored counter of every client is the limit less the requests the
\* script allowed the client in the current window, within 0..limit-1, and
\* no reported remaining is negative
CounterAccounts ==
  /\ limit >= 1
  /\ \A c \in Clients :
       rate[c].present =>
         /\ rate[c].val = limit - Len(winSeen[c])
         /\ rate[c].val \in 0..(limit - 1)
  /\ \A p \in Procs :
       /\ rscript[p].remaining >= 0
       /\ rres[p].remaining >= 0

\* a step in which the script runs for a request: denied, it leaves the
\* client's counter and time-to-live as they are; allowed or denied, it
\* leaves every other client's key as it is
ScriptStepTouchesOwnKey ==
  \A p \in Procs :
    (~rscript[p].ran /\ rscript'[p].ran) =>
      /\ rscript'[p].allowed = 0 => rate' = rate
      /\ \A c \in Clients \ {rclient'[p]} : rate'[c] = rate[c]

\* C29: for limit >= 1, in every reachable state the stored counter of a
\* client equals the limit minus the number of requests allowed for that
\* client in the current window, so it stays within 0..limit-1 and the
\* reported remaining is never negative; a denied request changes neither
\* the counter nor its time-to-live, and a request of one client never
\* changes another client's counter.
C29_CounterAccountsForAllowed ==
  []CounterAccounts /\ [][ScriptStepTouchesOwnKey]_vars

\* with limit 2 a client has used both units and was then denied, its
\* counter at 0 with time left, while the other client's key shows one
\* request
C29_Witness ==
  /\ limit = 2
  /\ \E c \in Clients, p \in Procs :
       /\ rclient[p] = c
       /\ rscript[p].ran
       /\ rscript[p].allowed = 0
       /\ rate[c].present
       /\ rate[c].val = 0
       /\ Len(winSeen[c]) = 2
       /\ \E c2 \in Clients \ {c} : rate[c2].present /\ rate[c2].val = 1

(***************************************************************************)
(* Claims about concurrent uploads of the same bytes                       *)
(***************************************************************************)
RECURSIVE DispatchedFor(_)
\* process_document.delay calls made for the documents in D
DispatchedFor(D) ==
  IF D = {} THEN 0
  ELSE LET d == CHOOSE x \in D : TRUE IN dispatched[d] + DispatchedFor(D \ {d})

\* C30: for every interleaving of concurrent ingest requests with identical
\* bytes, at most one Document row with that fingerprint is committed and at
\* most one process_document task is dispatched for it, and a task is
\* dispatched only for a Document row that has been committed.
C30_OneRowOneTaskPerFingerprint ==
  /\ \A h \in Hashes :
       /\ Cardinality(DocsWithHash(h)) <= 1
       /\ DispatchedFor(DocsWithHash(h)) <= 1
       /\ Cardinality({p \in IProcs : ing[p].content_hash = h /\ ing[p].created}) <= 1
  /\ \A d \in DocIds :
       (dispatched[d] > 0 \/ job[d].pc # "none") => docs[d].present
  /\ \A p \in IProcs :
       ing[p].pc = "delay" => docs[ing[p].doc].present

\* two requests with the same bytes, both received before either was
\* answered, both past the existence checks: one committed the row and
\* dispatched the task, the other's INSERT was refused
C30_Witness ==
  \E p, q \in IProcs :
    /\ p # q
    /\ ing[p].content_hash = ing[q].content_hash
    /\ ing[p].after = 0 /\ ing[q].after = 0
    /\ ing[p].pc = "done" /\ ing[p].created /\ ing[p].delayed
    /\ dispatched[ing[p].doc] = 1
    /\ ing[q].pc = "done" /\ ~ing[q].created /\ ~ing[q].failed
    /\ ing[q].cached = 0
    /\ ing[q].resp = HttpError(500)

=============================================================================
